---- MODULE Spec2Model ----
(***************************************************************************)
(* PyDBrave: migration of a schema and its plain data between two RDBMS.   *)
(*                                                                         *)
(* Two variants of the metadata migration live in the repository:          *)
(*   - migrator/pydb_migrator.py : migrate, migrate_metadata,              *)
(*                                 migrate_plain_data ("migrator")         *)
(*   - migration/steps/pydb_metadata.py : migrate_metadata ("steps")       *)
(* One behaviour of the model is one request handled by one variant.       *)
(* Tables are numbered 1..NumTables in the alphabetical order of their     *)
(* names; 0 is a name that is not in the source catalog.                   *)
(***************************************************************************)
EXTENDS Integers, Sequences, FiniteSets, TLC

\* ---------------------------------------------------------------- bounds
NumTables == 2      \* tables of the source schema
MaxRows == 3        \* rows of a source table
BatchSize == 2      \* configured pydb_common.MIGRATION_BATCH_SIZE
MaxFaults == 2      \* failures of external calls injected in one request
MaxTokens == 2      \* schema references and clauses of a view script
MaxColumns == 2     \* columns of a table record
MaxInitCalls == 2   \* calls of init_oracle_client

VARIABLES
    variant,        \* "migrator" | "steps"
    pc,             \* position of the request in the code
    faults,         \* failures injected so far
    trace,          \* statements executed on the source and on the target
    \* --- the request
    source_schema,  \* requested source schema name
    data_tables,    \* migrator: names of the tables to migrate ([] = all)
    \* --- the source database
    fks,            \* foreign keys <<child, parent>> of the source schema
    src_count,      \* number of rows of each source table
    \* --- the target database
    tschema,        \* the target schema exists
    ttables,        \* tables existing in the target schema
    trows,          \* rows of each target table, in insertion order
    restricted,     \* session restrictions in force on the target connection
    target_conn,    \* "none" | "open" | "closed"
    \* --- locals of migrate / migrate_metadata
    errors,         \* the request's error list
    op_errors,      \* migrate: errors of the plain-data phase
    from_schema,    \* canonical source schema name, "" when not found
    metadata,       \* tables held by source_metadata
    source_tables,  \* sorted tables to migrate
    to_schema,      \* the target schema was found
    idx,            \* loop index
    result,         \* migrated_tables
    \* --- locals of migrate_plain_data
    offset,
    migrated_count,
    bulk_data,
    tbl_errors,     \* migrate_plain_data: op_errors of the current table
    \* --- steps variant: the request and the locals of migrate_metadata
    flags,          \* step_metadata, process_indexes, process_views, process_mviews
    include_tables,
    exclude_tables,
    target_tables,  \* migration candidates
    indexes,        \* tables of the metadata holding index definitions
    tviews,         \* views existing in the target schema
    result_set,     \* steps: result is a dict (TRUE) or None (FALSE)
    scheme,         \* steps: include-tables and exclude-tables as received
    \* --- the request submitted a second time
    run,            \* 1: first call of migrate, 2: second call
    first_target,   \* the target as found, then as the first call left it
    \* --- a function called on its own
    unit,           \* the function called ("none": a whole request is run)
    args,           \* its arguments
    out,            \* what it returned or executed
    \* --- migrate_data
    warranted,      \* assert_migration: "unasked" | "pending" | "yes" | "no"
    \* --- the Oracle adapter
    ORCL_DB,        \* ORCL_DB_NAME, _USER, _PWD, _HOST, _PORT and _CLIENT
    client_initialized

vars == <<variant, pc, faults, trace, source_schema, data_tables, fks,
          src_count, tschema, ttables, trows, restricted, target_conn,
          errors, op_errors, from_schema, metadata, source_tables,
          to_schema, idx, result, offset, migrated_count, bulk_data,
          tbl_errors, flags, include_tables, exclude_tables, target_tables,
          indexes, tviews, result_set, scheme, run, first_target, unit, args, out, warranted,
          ORCL_DB>>

\* pydb_oracle: the connection parameters as the module is loaded; a
\* parameter is "None" or a string, the port <<>> (None) or <<number>>
OrclUnset ==
    [NAME |-> "None", USER |-> "None", PWD |-> "None", HOST |-> "None",
     PORT |-> <<>>, CLIENT |-> "None"]

\* ------------------------------------------------------------ the source
Tables == 1..NumTables

\* The foreign-key graphs tried: none, child before parent in name order,
\* parent before child, a cycle, and every table referring to the last one.
FkChoices ==
    { {}, {<<1, 2>>}, {<<2, 1>>}, {<<1, 2>>, <<2, 1>>},
      {<<c, NumTables>> : c \in 1..(NumTables - 1)} }

\* The lists of table names a request may carry (0 is an unknown name).
DataTableChoices == { <<>>, <<1>>, <<NumTables>>, <<0>>, <<1, 0>> }

\* Schema names of the source catalog, in catalog order.
SourceCatalog == <<"SYS", "Hr">>

SourceSchemaChoices == {"hr", "HR", "zz"}

\* str.lower() on the names above.
Lower(s) ==
    CASE s = "SYS" -> "sys"
      [] s = "Hr" -> "hr"
      [] s = "HR" -> "hr"
      [] OTHER -> s

\* A column of table t declares a default value.
HasDefault(t) == t = 2

Parents(t) == {p \in Tables : <<t, p>> \in fks}

\* The views of the source schema: a plain view whose name sorts before every
\* table name and a materialized view whose name sorts after them; both
\* select from table 1.
PView == NumTables + 1
MView == NumTables + 2
plain_views == {PView}
mat_views == {MView}
Objects == Tables \cup plain_views \cup mat_views
ViewBase(v) == {1}

\* rank of an object's name in alphabetical order
NameKey(o) ==
    IF o = PView THEN 0 ELSE IF o = MView THEN 2 * NumTables + 1 ELSE 2 * o

\* The include/exclude lists a request of the steps variant may carry.
FilterChoices ==
    { <<<<>>, <<>>>>, <<<<1>>, <<>>>>, <<<<>>, <<1>>>>, <<<<0>>, <<>>>>,
      <<<<>>, <<NumTables, 0>>>>, <<<<PView, NumTables>>, <<>>>>,
      <<<<NumTables, NumTables>>, <<>>>>, <<<<1>>, <<NumTables>>>> }

\* ---------------------------------------------------------------- helpers
Range(s) == {s[i] : i \in 1..Len(s)}

Reverse(s) == [i \in 1..Len(s) |-> s[Len(s) + 1 - i]]

Min(a, b) == IF a < b THEN a ELSE b

RECURSIVE SumLen(_)
SumLen(ss) == IF ss = <<>> THEN 0 ELSE Len(Head(ss)) + SumLen(Tail(ss))

RECURSIVE Flatten(_)
Flatten(ss) == IF ss = <<>> THEN <<>> ELSE Head(ss) \o Flatten(Tail(ss))

\* an entry of an error list: its code, what failed, the table concerned
\* (0: none) and the names it lists
Err(code, what, t) == [code |-> code, what |-> what, tbl |-> t, names |-> <<>>]
ErrNames(code, what, names) == [code |-> code, what |-> what, tbl |-> 0, names |-> names]

\* a statement executed on a database: its kind, its table (0: none), whether
\* it succeeded and the rows it returned or inserted
StmtRows(op, t, ok, rows) == [op |-> op, tbl |-> t, ok |-> ok, rows |-> rows]
Stmt(op, t, ok) == StmtRows(op, t, ok, <<>>)

CanFail == faults < MaxFaults

\* ------------------------------------------------- MetaData.sorted_tables
\* SQLAlchemy sorts the tables by name, then level by level: a level holds
\* the tables none of whose parents is still to be placed.
RECURSIVE SortLevels(_, _)
SortLevels(todo, edges) ==
    IF todo = <<>> THEN <<>>
    ELSE LET left == Range(todo)
             ready == SelectSeq(todo, LAMBDA t :
                         \A e \in edges : e[1] = t => e[2] \notin left \/ e[2] = t)
             rest == SelectSeq(todo, LAMBDA t : t \notin Range(ready))
         IN  IF ready = <<>> THEN todo
             ELSE ready \o SortLevels(rest, edges)

ByName(S) == [i \in 1..Cardinality(S) |->
                 CHOOSE t \in S :
                    Cardinality({u \in S : NameKey(u) < NameKey(t)}) = i - 1]

\* the foreign keys form a cycle among the tables of S
RECURSIVE Reach(_, _, _)
Reach(S, from, n) ==
    IF n = 0 THEN from
    ELSE Reach(S, from \cup {e[2] : e \in {f \in fks : f[1] \in from /\ f[2] \in S}}, n - 1)

Cyclic(S) ==
    \E t \in S : t \in Reach(S, {e[2] : e \in {f \in fks : f[1] = t /\ f[2] \in S /\ f[2] # t}},
                             Cardinality(S))

\* mutant: the tables in name order, foreign keys ignored
sorted_tables_by_name(S) == ByName(S)

sorted_tables(S) == SortLevels(ByName(S), fks)

\* ------------------------------------------------------- the plain data
\* The rows of source table t as stored: rowids n, n-1, ..., 1.
SourceHeap(t) == [i \in 1..src_count[t] |-> src_count[t] + 1 - i]

\* mutant: the query has no FETCH NEXT clause
build_select_query_unbounded(rows, off, batch_size) ==
    LET ordered == SortSeq(rows, LAMBDA a, b : a < b)
    IN  SubSeq(ordered, off + 1, Len(ordered))

\* pydb_oracle.build_select_query, as evaluated by the source:
\* ORDER BY rowid OFFSET off ROWS FETCH NEXT batch_size ROWS ONLY
build_select_query(rows, off, batch_size) ==
    LET ordered == SortSeq(rows, LAMBDA a, b : a < b)
    IN  SubSeq(ordered, off + 1, Min(off + batch_size, Len(ordered)))

\* migrate_plain_data: the errors list given to the first SELECT of a table
\* is the caller's list (TRUE), not the table's op_errors
FirstSelectUsesCallerErrors == TRUE

\* migrate_plain_data: 'while not op_errors and bulk_data'
LoopContinues(op_errs, bulk) == op_errs = <<>> /\ bulk # <<>>

\* mutant: the offset advances by one row
NextOffsetByOne(off, bulk) == off + 1

\* migrate_plain_data: offset of the next page
NextOffset(off, bulk) == off + Len(bulk)

\* mutant: a table that met an error is recorded 'partial'
PlainStatusPartial(op_errs, count) ==
    IF op_errs # <<>> THEN "partial" ELSE "full"

\* migrate_plain_data: the status recorded for a table
PlainStatus(op_errs, count) ==
    IF op_errs # <<>> THEN (IF count # 0 THEN "partial" ELSE "none")
    ELSE "full"

\* mutant: op_errors is not emptied between two tables
KeptOpErrors(previous) == previous

\* migrate_plain_data: op_errors of a table starts empty
FreshOpErrors(previous) == <<>>

\* migrate: 'if not op_errors' guards migrate_plain_data
RunsPlainData(op_errs) == op_errs = <<>>

\* mutant: the target schema is set up again once the data are copied
AfterPlainDataSetup == "mm_probe"

\* migrate: what follows migrate_metadata, and what follows migrate_plain_data
AfterMetadata == "m_connect"
AfterPlainData == "m_restore"

\* ---------------------------------------------- migrate_metadata (migrator)
\* mutant: no name is ever reported as missing
UnlistedTablesNone(wanted, names) == <<>>

\* names of data_tables that are not tables of the reflected schema
UnlistedTables(wanted, names) ==
    SelectSeq(wanted, LAMBDA n : n \notin names)

\* tables left in the metadata after the spare ones are removed
PurgeSpare(S, wanted) ==
    IF wanted # <<>> THEN {t \in S : t \in Range(wanted)} ELSE S

\* mutant: the tables are dropped in the order of sorted_tables
DropOrderForward(tables) == tables

\* the order in which existing target tables are dropped
DropOrder(tables) == Reverse(tables)

\* the canonical name of a schema: first catalog name equal ignoring case
RECURSIVE FindSchema(_, _, _)
FindSchema(catalog, wanted, fold_wanted) ==
    IF catalog = <<>> THEN ""
    ELSE IF (IF fold_wanted THEN Lower(wanted) ELSE wanted) = Lower(Head(catalog))
         THEN Head(catalog)
         ELSE FindSchema(Tail(catalog), wanted, fold_wanted)

\* the sanity check after CREATE SCHEMA probes the catalog again only when
\* the error list is empty
SanityProbe(errs) == Len(errs) = 0

\* mutant: a CREATE SCHEMA that reports no error is trusted
TrustedSchema(errs, exists) == SanityProbe(errs)

\* to_schema after CREATE SCHEMA: the schema the sanity probe finds
ReprobedSchema(errs, exists) == SanityProbe(errs) /\ exists

\* CREATE TABLE t succeeds only if the schema exists, t does not exist yet
\* and the tables its foreign keys refer to exist
CreateAccepted(t, existing) ==
    tschema /\ t \notin existing /\ Parents(t) \subseteq existing

\* DROP TABLE IF EXISTS t (no CASCADE) is refused while a table that is not
\* dropped yet holds a foreign key referring to t
DropAccepted(t, existing) ==
    ~\E c \in existing \ {t} : t \in existing /\ <<c, t>> \in fks

\* the record registered for a migrated table
MigratedTable(t) == [table |-> t, count |-> 0, status |-> "none"]

\* ------------------------------------------------------------------ Init
InitMigrator ==
    /\ variant = "migrator"
    /\ pc = "mm_engines"
    /\ faults = 0
    /\ trace = <<>>
    /\ source_schema \in SourceSchemaChoices
    /\ data_tables \in DataTableChoices
    /\ fks \in FkChoices
    /\ src_count \in [Tables -> 0..MaxRows]
    /\ tschema \in BOOLEAN
    \* an existing target schema holds the tables of an earlier run,
    \* each with one stale row (rowid 0)
    /\ ttables = IF tschema THEN Tables ELSE {}
    /\ trows = [t \in Tables |-> IF tschema THEN <<0>> ELSE <<>>]
    /\ restricted = TRUE
    /\ target_conn = "none"
    /\ errors = <<>>
    /\ op_errors = <<>>
    /\ from_schema = ""
    /\ metadata = {}
    /\ source_tables = <<>>
    /\ to_schema = FALSE
    /\ idx = 0
    /\ result = <<>>
    /\ offset = 0
    /\ migrated_count = 0
    /\ bulk_data = <<>>
    /\ tbl_errors = <<>>
    /\ flags = [step_metadata |-> TRUE, process_indexes |-> FALSE,
                process_views |-> FALSE, process_mviews |-> FALSE]
    /\ include_tables = <<>>
    /\ exclude_tables = <<>>
    /\ target_tables = <<>>
    /\ indexes = {}
    /\ tviews = {}
    /\ result_set = TRUE
    /\ scheme = <<<<>>, <<>>>>
    /\ run = 1
    /\ first_target = <<tschema, ttables, trows, tviews>>
    /\ unit = "none"
    /\ args = <<>>
    /\ out = <<>>
    /\ warranted = IF pc = "md_validate" THEN "pending" ELSE "unasked"
    /\ ORCL_DB = OrclUnset
    /\ client_initialized = FALSE

\* mutant: process-indexes is taken as requested
RequestedProcessIndexes(step_metadata, requested) == requested

\* migrate_data: process_indexes is 'step_metadata and process-indexes set'
DerivedProcessIndexes(step_metadata, requested) == step_metadata /\ requested

InitSteps ==
    /\ variant = "steps"
    \* the request comes through migrate_data, or migrate_metadata is called
    /\ pc \in {"md_validate", "sm_engines"}
    /\ faults = 0
    /\ trace = <<>>
    /\ source_schema \in SourceSchemaChoices
    /\ data_tables = <<>>
    /\ fks \in FkChoices
    /\ src_count = [t \in Tables |-> 0]
    /\ tschema \in BOOLEAN
    /\ ttables = IF tschema THEN Tables ELSE {}
    /\ trows = [t \in Tables |-> IF tschema THEN <<0>> ELSE <<>>]
    /\ restricted = TRUE
    /\ target_conn = "none"
    /\ errors = <<>>
    /\ op_errors = <<>>
    /\ from_schema = ""
    /\ metadata = {}
    /\ source_tables = <<>>
    /\ to_schema = FALSE
    /\ idx = 0
    /\ result = <<>>
    /\ offset = 0
    /\ migrated_count = 0
    /\ bulk_data = <<>>
    /\ tbl_errors = <<>>
    /\ \E asked \in [step_metadata : BOOLEAN, process_indexes : BOOLEAN,
                       process_views : BOOLEAN, process_mviews : BOOLEAN] :
          flags = IF pc = "md_validate"
                  THEN [asked EXCEPT !.process_indexes =
                            DerivedProcessIndexes(asked.step_metadata, @)]
                  ELSE asked
    /\ scheme \in FilterChoices
    /\ include_tables = scheme[1]
    /\ exclude_tables = scheme[2]
    /\ target_tables = <<>>
    /\ indexes = {}
    /\ tviews = {}
    /\ result_set = FALSE
    /\ run = 1
    /\ first_target = <<tschema, ttables, trows, tviews>>
    /\ unit = "none"
    /\ args = <<>>
    /\ out = <<>>
    /\ warranted = IF pc = "md_validate" THEN "pending" ELSE "unasked"
    /\ ORCL_DB = OrclUnset
    /\ client_initialized = FALSE

Init == InitMigrator \/ InitSteps

\* --------------------------------------------------------- frame helpers
request == <<variant, source_schema, data_tables, flags, scheme>>
\* the source database and the parameters for connecting to it
source_db == <<fks, src_count, ORCL_DB, client_initialized>>
target_db == <<tschema, ttables, trows, tviews>>
plain_locals == <<offset, migrated_count, bulk_data, tbl_errors>>
steps_locals == <<include_tables, exclude_tables, target_tables, indexes, result_set>>
alone == <<unit, args, out>>
runs == <<run, first_target, alone, warranted>>

\* ------------------------------------------------ migrate_metadata steps
\* build_engine for the source and for the target
MM_BuildEngines ==
    /\ variant = "migrator" /\ pc = "mm_engines"
    /\ \/ /\ pc' = "mm_schema"
          /\ UNCHANGED <<faults, errors>>
       \/ /\ CanFail
          /\ faults' = faults + 1
          /\ errors' = Append(errors, Err("db", "build_engine", 0))
          /\ pc' = AfterMetadata
    /\ UNCHANGED <<steps_locals, request, runs, source_db, target_db, trace, restricted, target_conn,
                   op_errors, from_schema, metadata, source_tables, to_schema,
                   idx, result, plain_locals>>

\* resolve the source schema, reflect it, select and sort the tables
MM_Reflect ==
    /\ variant = "migrator" /\ pc = "mm_schema"
    /\ LET found == FindSchema(SourceCatalog, source_schema, TRUE)
           unlisted == UnlistedTables(data_tables, Tables)
           kept == PurgeSpare(Tables, data_tables)
       IN  /\ from_schema' = found
           /\ IF found = ""
              THEN /\ errors' = Append(errors, Err("119", "schema not found", 0))
                   /\ pc' = AfterMetadata
                   /\ UNCHANGED <<trace, metadata, source_tables>>
              ELSE /\ trace' = Append(trace, Stmt("REFLECT", 0, TRUE))
                   /\ IF \/ data_tables # <<>> /\ Cyclic(Tables)
                         \/ unlisted = <<>> /\ Cyclic(kept)
                      THEN \* sorted_tables warns of the cycle: nothing handles it
                           /\ pc' = "raised"
                           /\ metadata' = Tables
                           /\ UNCHANGED <<errors, source_tables>>
                      ELSE IF unlisted # <<>>
                      THEN /\ errors' = Append(errors, ErrNames("119", "not found", unlisted))
                           /\ pc' = AfterMetadata
                           /\ metadata' = Tables
                           /\ UNCHANGED source_tables
                      ELSE /\ metadata' = kept
                           /\ source_tables' = sorted_tables(kept)
                           /\ pc' = "mm_probe"
                           /\ UNCHANGED errors
    /\ UNCHANGED <<steps_locals, request, runs, source_db, target_db, faults, restricted, target_conn,
                   op_errors, to_schema, idx, result, plain_locals>>

\* look the target schema up in the target catalog
MM_ProbeTarget ==
    /\ variant = "migrator" /\ pc = "mm_probe"
    /\ to_schema' = tschema
    /\ trace' = Append(trace, Stmt("PROBE", 0, TRUE))
    /\ IF tschema
       THEN pc' = "mm_drop" /\ idx' = 1
       ELSE pc' = "mm_create_schema" /\ UNCHANGED idx
    /\ UNCHANGED <<steps_locals, request, runs, source_db, target_db, faults, restricted, target_conn,
                   errors, op_errors, from_schema, metadata, source_tables,
                   result, plain_locals>>

\* DROP TABLE IF EXISTS, one table per step, in DropOrder
MM_DropTable ==
    /\ variant = "migrator" /\ pc = "mm_drop"
    /\ IF idx > Len(source_tables)
       THEN /\ pc' = "mm_check"
            /\ UNCHANGED <<faults, trace, errors, ttables, trows, idx>>
       ELSE LET t == DropOrder(source_tables)[idx]
            IN  /\ idx' = idx + 1
                /\ pc' = "mm_drop"
                /\ \/ /\ DropAccepted(t, ttables)
                      /\ trace' = Append(trace, Stmt("DROP", t, TRUE))
                      /\ ttables' = ttables \ {t}
                      /\ trows' = [trows EXCEPT ![t] = <<>>]
                      /\ UNCHANGED <<faults, errors>>
                   \/ /\ \/ ~DropAccepted(t, ttables) /\ UNCHANGED faults
                         \/ DropAccepted(t, ttables) /\ CanFail /\ faults' = faults + 1
                      /\ trace' = Append(trace, Stmt("DROP", t, FALSE))
                      /\ errors' = Append(errors, Err("104", "drop", t))
                      /\ UNCHANGED <<ttables, trows>>
    /\ UNCHANGED <<steps_locals, request, runs, source_db, tschema, tviews, restricted, target_conn,
                   op_errors, from_schema, metadata, source_tables, to_schema,
                   result, plain_locals>>

\* CREATE SCHEMA, then the sanity probe when no error was reported
MM_CreateSchema ==
    /\ variant = "migrator" /\ pc = "mm_create_schema"
    /\ \/ \* the schema is created
          /\ tschema' = TRUE
          /\ trace' = trace \o <<Stmt("CREATE SCHEMA", 0, TRUE)>> \o
                         (IF SanityProbe(errors) THEN <<Stmt("PROBE", 0, TRUE)>> ELSE <<>>)
          /\ to_schema' = ReprobedSchema(errors, tschema')
          /\ UNCHANGED <<faults, errors>>
       \/ \* the statement reports no error and creates nothing
          /\ CanFail
          /\ faults' = faults + 1
          /\ trace' = trace \o <<Stmt("CREATE SCHEMA", 0, TRUE)>> \o
                         (IF SanityProbe(errors) THEN <<Stmt("PROBE", 0, TRUE)>> ELSE <<>>)
          /\ to_schema' = ReprobedSchema(errors, tschema)
          /\ UNCHANGED <<tschema, errors>>
       \/ \* the statement fails
          /\ CanFail
          /\ faults' = faults + 1
          /\ trace' = Append(trace, Stmt("CREATE SCHEMA", 0, FALSE))
          /\ errors' = Append(errors, Err("104", "create schema", 0))
          /\ to_schema' = FALSE
          /\ UNCHANGED tschema
    /\ pc' = "mm_check"
    /\ UNCHANGED <<steps_locals, request, runs, source_db, ttables, trows, tviews, restricted, target_conn,
                   op_errors, from_schema, metadata, source_tables, idx,
                   result, plain_locals>>

\* setup_target_table for every table: the column whose default is set makes
\* 'column.lower()' fail, which is reported as error 104
SetupErrors(tables) ==
    SelectSeq([i \in 1..Len(tables) |-> Err("104", "setup", tables[i])],
              LAMBDA e : HasDefault(e.tbl))

\* the target schema exists: register the tables; else report the failure
MM_SetupTables ==
    /\ variant = "migrator" /\ pc = "mm_check"
    /\ IF to_schema
       THEN /\ result' = [i \in 1..Len(source_tables) |-> MigratedTable(source_tables[i])]
            /\ errors' = errors \o SetupErrors(source_tables)
            /\ pc' = "mm_create"
            /\ idx' = 1
       ELSE /\ errors' = Append(errors, Err("104", "unable to create schema", 0))
            /\ pc' = AfterMetadata
            /\ UNCHANGED <<result, idx>>
    /\ UNCHANGED <<steps_locals, request, runs, source_db, target_db, faults, trace, restricted,
                   target_conn, op_errors, from_schema, metadata, source_tables,
                   to_schema, plain_locals>>

\* source_metadata.create_all(checkfirst=False): CREATE TABLE in sorted
\* order, one table per step; the first failure ends it with error 104
MM_CreateTable ==
    /\ variant = "migrator" /\ pc = "mm_create"
    /\ IF idx > Len(source_tables)
       THEN /\ pc' = AfterMetadata
            /\ UNCHANGED <<faults, trace, errors, ttables, idx>>
       ELSE LET t == source_tables[idx]
            IN  \/ /\ CreateAccepted(t, ttables)
                   /\ trace' = Append(trace, Stmt("CREATE", t, TRUE))
                   /\ ttables' = ttables \cup {t}
                   /\ idx' = idx + 1
                   /\ pc' = "mm_create"
                   /\ UNCHANGED <<faults, errors>>
                \/ /\ \/ ~CreateAccepted(t, ttables) /\ UNCHANGED faults
                      \/ CreateAccepted(t, ttables) /\ CanFail /\ faults' = faults + 1
                   /\ trace' = Append(trace, Stmt("CREATE", t, FALSE))
                   /\ errors' = Append(errors, Err("104", "create", t))
                   /\ pc' = AfterMetadata
                   /\ UNCHANGED <<ttables, idx>>
    /\ UNCHANGED <<steps_locals, request, runs, source_db, tschema, trows, tviews, restricted, target_conn,
                   op_errors, from_schema, metadata, source_tables, to_schema,
                   result, plain_locals>>

\* ------------------------------------------------------------- migrate
\* db_connect to the target
M_Connect ==
    /\ variant = "migrator" /\ pc = "m_connect"
    /\ \/ /\ target_conn' = "open"
          /\ op_errors' = <<>>
          /\ pc' = "m_disable"
          /\ UNCHANGED faults
       \/ /\ CanFail
          /\ faults' = faults + 1
          /\ op_errors' = <<Err("db", "connect", 0)>>
          /\ pc' = "m_finish"
          /\ UNCHANGED target_conn
    /\ UNCHANGED <<steps_locals, request, runs, source_db, target_db, trace, restricted, errors,
                   from_schema, metadata, source_tables, to_schema, idx, result,
                   plain_locals>>

\* disable_session_restrictions on the target connection
M_Disable ==
    /\ variant = "migrator" /\ pc = "m_disable"
    /\ \/ /\ restricted' = FALSE
          /\ trace' = Append(trace, Stmt("DISABLE", 0, TRUE))
          /\ pc' = IF RunsPlainData(op_errors) THEN "pd_table" ELSE AfterPlainData
          /\ UNCHANGED <<faults, op_errors>>
       \/ /\ CanFail
          /\ faults' = faults + 1
          /\ restricted' \in BOOLEAN    \* some of the toggles may have been applied
          /\ trace' = Append(trace, Stmt("DISABLE", 0, FALSE))
          /\ op_errors' = Append(op_errors, Err("db", "disable", 0))
          /\ pc' = IF RunsPlainData(op_errors') THEN "pd_table" ELSE AfterPlainData
    /\ idx' = 1
    /\ UNCHANGED <<steps_locals, request, runs, source_db, target_db, target_conn, errors,
                   from_schema, metadata, source_tables, to_schema, result,
                   plain_locals>>

\* migrate_plain_data: next table of migrated_tables, its statements and
\* its first SELECT; the loop over the tables ends after the last one
PD_BeginTable ==
    /\ variant = "migrator" /\ pc = "pd_table"
    /\ IF idx > Len(result)
       THEN /\ pc' = AfterPlainData
            /\ UNCHANGED <<faults, trace, op_errors, plain_locals>>
       ELSE LET t == result[idx].table
            IN  /\ offset' = 0
                /\ migrated_count' = 0
                /\ \/ /\ bulk_data' = build_select_query(SourceHeap(t), 0, BatchSize)
                      /\ trace' = Append(trace, StmtRows("SELECT", t, TRUE, bulk_data'))
                      /\ tbl_errors' = FreshOpErrors(tbl_errors)
                      /\ pc' = "pd_loop"
                      /\ UNCHANGED <<faults, op_errors>>
                   \/ /\ CanFail
                      /\ faults' = faults + 1
                      /\ bulk_data' = <<>>
                      /\ trace' = Append(trace, Stmt("SELECT", t, FALSE))
                      /\ IF FirstSelectUsesCallerErrors
                         THEN /\ op_errors' = Append(op_errors, Err("db", "select", t))
                              /\ tbl_errors' = FreshOpErrors(tbl_errors)
                         ELSE /\ tbl_errors' = Append(FreshOpErrors(tbl_errors),
                                                      Err("db", "select", t))
                              /\ UNCHANGED op_errors
                      /\ pc' = "pd_loop"
    /\ UNCHANGED <<steps_locals, request, runs, source_db, target_db, restricted, target_conn,
                   errors, from_schema, metadata, source_tables, to_schema,
                   idx, result>>

\* db_bulk_insert of the current page, in one transaction
PD_Insert ==
    /\ variant = "migrator" /\ pc = "pd_loop"
    /\ LoopContinues(tbl_errors, bulk_data)
    /\ LET t == result[idx].table
       IN  \/ /\ t \in ttables
              /\ trows' = [trows EXCEPT ![t] = @ \o bulk_data]
              /\ trace' = Append(trace, StmtRows("INSERT", t, TRUE, bulk_data))
              /\ migrated_count' = migrated_count + Len(bulk_data)
              /\ pc' = "pd_select"
              /\ UNCHANGED <<faults, tbl_errors>>
           \/ /\ \/ t \notin ttables /\ UNCHANGED faults
                 \/ t \in ttables /\ CanFail /\ faults' = faults + 1
              /\ trace' = Append(trace, Stmt("INSERT", t, FALSE))
              /\ tbl_errors' = Append(tbl_errors, Err("db", "insert", t))
              /\ pc' = "pd_loop"
              /\ UNCHANGED <<trows, migrated_count>>
    /\ UNCHANGED <<steps_locals, request, runs, source_db, tschema, ttables, tviews, restricted, target_conn,
                   errors, op_errors, from_schema, metadata, source_tables,
                   to_schema, idx, result, offset, bulk_data>>

\* the SELECT of the next page
PD_NextSelect ==
    /\ variant = "migrator" /\ pc = "pd_select"
    /\ LET t == result[idx].table
           off == NextOffset(offset, bulk_data)
       IN  /\ offset' = off
           /\ \/ /\ bulk_data' = build_select_query(SourceHeap(t), off, BatchSize)
                 /\ trace' = Append(trace, StmtRows("SELECT", t, TRUE, bulk_data'))
                 /\ UNCHANGED <<faults, tbl_errors>>
              \/ /\ CanFail
                 /\ faults' = faults + 1
                 /\ bulk_data' = <<>>
                 /\ trace' = Append(trace, Stmt("SELECT", t, FALSE))
                 /\ tbl_errors' = Append(tbl_errors, Err("db", "select", t))
    /\ pc' = "pd_loop"
    /\ UNCHANGED <<steps_locals, request, runs, source_db, target_db, restricted, target_conn,
                   errors, op_errors, from_schema, metadata, source_tables,
                   to_schema, idx, result, migrated_count>>

\* the loop of a table has ended: record its status and count
PD_EndTable ==
    /\ variant = "migrator" /\ pc = "pd_loop"
    /\ ~LoopContinues(tbl_errors, bulk_data)
    /\ op_errors' = op_errors \o tbl_errors
    /\ result' = [result EXCEPT ![idx] =
                    [@ EXCEPT !.status = PlainStatus(tbl_errors, migrated_count),
                              !.count = migrated_count]]
    /\ idx' = idx + 1
    /\ pc' = "pd_table"
    /\ UNCHANGED <<steps_locals, request, runs, source_db, target_db, faults, trace, restricted,
                   target_conn, errors, from_schema, metadata, source_tables,
                   to_schema, plain_locals>>

\* a call made by migrate_plain_data raises: neither migrate_plain_data nor
\* migrate handles it, and the request ends with the exception
PD_Raise ==
    /\ variant = "migrator" /\ pc \in {"pd_table", "pd_loop", "pd_select"}
    /\ pc = "pd_table" => idx <= Len(result)
    /\ pc = "pd_loop" => LoopContinues(tbl_errors, bulk_data)
    /\ CanFail
    /\ faults' = faults + 1
    /\ pc' = "raised"
    /\ UNCHANGED <<steps_locals, request, runs, source_db, target_db, trace, restricted, target_conn,
                   errors, op_errors, from_schema, metadata, source_tables,
                   to_schema, idx, result, plain_locals>>

\* restore_session_restrictions on the target connection
M_Restore ==
    /\ variant = "migrator" /\ pc = "m_restore"
    /\ restricted' = TRUE
    /\ trace' = Append(trace, Stmt("RESTORE", 0, TRUE))
    /\ pc' = "m_close"
    /\ UNCHANGED <<steps_locals, request, runs, source_db, target_db, faults, target_conn, errors,
                   op_errors, from_schema, metadata, source_tables, to_schema,
                   idx, result, plain_locals>>

\* target_conn.close()
M_Close ==
    /\ variant = "migrator" /\ pc = "m_close"
    /\ target_conn' = "closed"
    /\ trace' = Append(trace, Stmt("CLOSE", 0, TRUE))
    /\ pc' = "m_finish"
    /\ UNCHANGED <<steps_locals, request, runs, source_db, target_db, faults, restricted, errors,
                   op_errors, from_schema, metadata, source_tables, to_schema,
                   idx, result, plain_locals>>

\* errors.extend(op_errors) and the reply
M_Finish ==
    /\ variant = "migrator" /\ pc = "m_finish"
    /\ errors' = errors \o op_errors
    /\ pc' = "done"
    /\ UNCHANGED <<steps_locals, request, runs, source_db, target_db, faults, trace, restricted,
                   target_conn, op_errors, from_schema, metadata, source_tables,
                   to_schema, idx, result, plain_locals>>

\* the caller submits the same request again: migrate is called a second
\* time, on the source as it was and on the target as the first call left it
M_Rerun ==
    /\ variant = "migrator" /\ pc = "done" /\ run = 1
    /\ run' = 2
    /\ first_target' = <<tschema, ttables, trows, tviews>>
    /\ pc' = "mm_engines"
    /\ trace' = <<>>
    /\ restricted' = TRUE
    /\ target_conn' = "none"
    /\ errors' = <<>>
    /\ op_errors' = <<>>
    /\ from_schema' = ""
    /\ metadata' = {}
    /\ source_tables' = <<>>
    /\ to_schema' = FALSE
    /\ idx' = 0
    /\ result' = <<>>
    /\ offset' = 0
    /\ migrated_count' = 0
    /\ bulk_data' = <<>>
    /\ tbl_errors' = <<>>
    /\ UNCHANGED <<steps_locals, request, source_db, target_db, faults, alone,
                   warranted>>

\* ------------------------------------------------------- migrate_data
\* pydb_validator.assert_migration: the error lists it may report for a
\* request; include-tables and exclude-tables are mutually exclusive
assert_migration(lists) ==
    IF lists[1] # <<>> /\ lists[2] # <<>>
    THEN {<<ErrNames("142", "mutually exclusive", lists[1] \o lists[2])>>}
    ELSE {<<>>, <<Err("112", "required attribute", 0)>>}

\* mutant: the migration is launched whatever assert_migration reported
MigrationAlwaysPossible(errs) == TRUE

\* migrate_data: 'if not errors' guards the call of migrate
MigrationPossible(errs) == errs = <<>>

\* migrate_data validates the request, then migrates or answers at once
MD_Validate ==
    /\ variant = "steps" /\ pc = "md_validate"
    /\ \E errs \in assert_migration(scheme) :
          /\ errors' = errs
          /\ warranted' = IF errs = <<>> THEN "yes" ELSE "no"
          /\ pc' = IF MigrationPossible(errs) THEN "sm_engines" ELSE "done"
    /\ UNCHANGED <<steps_locals, request, source_db, target_db, faults, trace,
                   restricted, target_conn, op_errors, from_schema, metadata,
                   source_tables, to_schema, idx, result, plain_locals, run,
                   first_target, alone>>

\* ------------------------------------------- migrate_metadata (steps)
\* source_metadata.tables.values(): tables, then views, as reflected
ReflectOrder == ByName(Tables) \o <<PView, MView>>

\* list.remove(x): the list without the first occurrence of x
RECURSIVE RemoveFirst(_, _)
RemoveFirst(list, x) ==
    IF list = <<>> THEN <<>>
    ELSE IF Head(list) = x THEN Tail(list)
    ELSE <<Head(list)>> \o RemoveFirst(Tail(list), x)

\* every reflected object of the model belongs to the source schema
InSourceSchema(o) == o \in Objects

\* the loop building the migration candidates; it consumes the names of
\* include_tables and exclude_tables it meets
RECURSIVE FilterLoop(_, _, _, _, _)
FilterLoop(src, incl, excl, include, target) ==
    IF src = <<>> THEN [target |-> target, incl |-> incl, excl |-> excl]
    ELSE LET o == Head(src)
         IN  IF o \in Range(incl)
             THEN FilterLoop(Tail(src), RemoveFirst(incl, o), excl, include,
                             Append(target, o))
             ELSE IF o \in Range(excl)
             THEN FilterLoop(Tail(src), incl, RemoveFirst(excl, o), include, target)
             ELSE IF /\ include
                     /\ InSourceSchema(o)
                     /\ ~(o \in plain_views /\ ~flags.process_views)
                     /\ ~(o \in mat_views /\ ~flags.process_mviews)
             THEN FilterLoop(Tail(src), incl, excl, include, Append(target, o))
             ELSE FilterLoop(Tail(src), incl, excl, include, target)

\* names left in the lists after the loop: not found in the source schema
BadTables(incl, excl) == incl \o excl

\* mutant: the purge of the metadata leaves the index definitions
KeptIndexesAll(kept) == kept \cap indexes

\* index definitions kept by the purge of the metadata
KeptIndexes(kept) ==
    IF flags.step_metadata /\ ~flags.process_indexes THEN {}
    ELSE kept \cap indexes

\* mutant: the schema is migrated whatever step_metadata is
RunsDdlAlways(step_metadata) == TRUE

\* 'if step_metadata' guards migrate_schema and the creation of the
\* tables and views
RunsDdl(step_metadata) == step_metadata

\* mutant: the error list is not looked at after sorting
SortedOkAlways(errs) == TRUE

\* the steps variant goes on after sorting only when no error was reported
SortedOk(errs) == errs = <<>>

\* CREATE VIEW succeeds only if the view does not exist yet and the tables
\* it selects from exist
ViewAccepted(v, tabs, views) ==
    tschema /\ v \notin views /\ ViewBase(v) \subseteq tabs

SM_BuildEngines ==
    /\ variant = "steps" /\ pc = "sm_engines"
    /\ \/ /\ pc' = "sm_reflect"
          /\ UNCHANGED <<faults, errors>>
       \/ /\ CanFail
          /\ faults' = faults + 1
          /\ errors' = Append(errors, Err("db", "build_engine", 0))
          /\ pc' = "sm_return"
    /\ UNCHANGED <<steps_locals, request, runs, source_db, target_db, trace, restricted,
                   target_conn, op_errors, from_schema, metadata, source_tables,
                   to_schema, idx, result, plain_locals>>

\* the schema name migrate_metadata receives: migrate_data hands it on in
\* lower case, a direct caller as it has it
SchemaGiven == IF warranted = "unasked" THEN source_schema ELSE Lower(source_schema)

\* resolve the source schema and reflect it with its views
SM_Reflect ==
    /\ variant = "steps" /\ pc = "sm_reflect"
    /\ LET found == FindSchema(SourceCatalog, SchemaGiven, FALSE)
       IN  /\ from_schema' = found
           /\ IF found = ""
              THEN /\ errors' = Append(errors, Err("142", "schema not found", 0))
                   /\ pc' = "sm_return"
                   /\ UNCHANGED <<faults, trace, metadata, indexes>>
              ELSE \/ /\ trace' = Append(trace, Stmt("REFLECT", 0, TRUE))
                      /\ metadata' = Objects
                      /\ indexes' = Tables
                      /\ pc' = IF errors = <<>> THEN "sm_filter" ELSE "sm_return"
                      /\ UNCHANGED <<faults, errors>>
                   \/ /\ CanFail
                      /\ faults' = faults + 1
                      /\ trace' = Append(trace, Stmt("REFLECT", 0, FALSE))
                      /\ errors' = Append(errors, Err("104", "schema-reflection", 0))
                      /\ pc' = "sm_return"
                      /\ UNCHANGED <<metadata, indexes>>
    /\ UNCHANGED <<include_tables, exclude_tables, target_tables, result_set,
                   request, runs, source_db, target_db, restricted,
                   target_conn, op_errors, to_schema, source_tables, idx, result,
                   plain_locals>>

\* build the candidates, report the names not found or purge the metadata,
\* then sort the tables
SM_FilterAndSort ==
    /\ variant = "steps" /\ pc = "sm_filter"
    /\ LET f == FilterLoop(ReflectOrder, include_tables, exclude_tables,
                           include_tables = <<>>, <<>>)
           bad == BadTables(f.incl, f.excl)
           kept == Range(f.target)
       IN  /\ target_tables' = f.target
           /\ include_tables' = f.incl
           /\ exclude_tables' = f.excl
           /\ IF bad # <<>>
              THEN /\ errors' = Append(errors, ErrNames("142", "not found", bad))
                   /\ pc' = "sm_return"
                   /\ UNCHANGED <<metadata, indexes, source_tables>>
              ELSE /\ metadata' = kept
                   /\ indexes' = KeptIndexes(kept)
                   /\ IF Cyclic(kept \cap Tables)
                      THEN /\ errors' = Append(errors, Err("104", "schema-migration", 0))
                           /\ source_tables' = <<>>
                           /\ pc' = IF SortedOk(errors') THEN "sm_schema" ELSE "sm_return"
                      ELSE /\ source_tables' = sorted_tables(kept)
                           /\ pc' = IF SortedOk(errors) THEN "sm_schema" ELSE "sm_return"
                           /\ UNCHANGED errors
    /\ UNCHANGED <<request, runs, source_db, target_db, faults, trace, restricted,
                   target_conn, op_errors, from_schema, to_schema, idx, result,
                   result_set, plain_locals>>

\* the DROP statements of a list of tables and views, each accepted or
\* refused by the target as it stands when the statement is executed
RECURSIVE DropAll(_, _)
DropAll(drops, existing) ==
    IF drops = <<>> THEN [stmts |-> <<>>, errs |-> <<>>, left |-> existing]
    ELSE LET t == Head(drops)
             ok == DropAccepted(t, existing)
             rest == DropAll(Tail(drops), IF ok THEN existing \ {t} ELSE existing)
         IN  [stmts |-> <<Stmt("DROP", t, ok)>> \o rest.stmts,
              errs |-> (IF ok THEN <<>> ELSE <<Err("104", "drop", t)>>) \o rest.errs,
              left |-> rest.left]

\* pydb_migration.migrate_schema: drop the candidates of an existing target
\* schema in reverse order, or create the schema and probe for it again
SM_MigrateSchema ==
    /\ variant = "steps" /\ pc = "sm_schema"
    /\ IF ~RunsDdl(flags.step_metadata)
       THEN /\ to_schema' = TRUE
            /\ pc' = "sm_tables"
            /\ UNCHANGED <<faults, trace, errors, tschema, ttables, trows, tviews>>
       ELSE IF tschema
       THEN LET d == DropAll(DropOrder(source_tables), ttables \cup tviews)
            IN  /\ trace' = trace \o <<Stmt("PROBE", 0, TRUE)>> \o d.stmts
                /\ ttables' = ttables \cap d.left
                /\ tviews' = tviews \cap d.left
                /\ trows' = [t \in Tables |-> IF t \in d.left THEN trows[t] ELSE <<>>]
                /\ errors' = errors \o d.errs
                /\ to_schema' = TRUE
                /\ pc' = "sm_tables"
                /\ UNCHANGED <<faults, tschema>>
       ELSE \/ /\ tschema' = TRUE
               /\ trace' = trace \o <<Stmt("PROBE", 0, TRUE),
                                     Stmt("CREATE SCHEMA", 0, TRUE),
                                     Stmt("PROBE", 0, TRUE)>>
               /\ to_schema' = TRUE
               /\ pc' = "sm_tables"
               /\ UNCHANGED <<faults, errors, ttables, trows, tviews>>
            \/ /\ CanFail
               /\ faults' = faults + 1
               /\ trace' = trace \o <<Stmt("PROBE", 0, TRUE),
                                     Stmt("CREATE SCHEMA", 0, TRUE),
                                     Stmt("PROBE", 0, TRUE)>>
               /\ to_schema' = FALSE
               /\ errors' = Append(errors, Err("102", "unable to create schema", 0))
               /\ pc' = "sm_return"
               /\ UNCHANGED <<tschema, ttables, trows, tviews>>
            \/ /\ CanFail
               /\ faults' = faults + 1
               /\ trace' = trace \o <<Stmt("PROBE", 0, TRUE),
                                     Stmt("CREATE SCHEMA", 0, FALSE)>>
               /\ to_schema' = FALSE
               /\ errors' = errors \o <<Err("104", "create schema", 0),
                                       Err("102", "unable to create schema", 0)>>
               /\ pc' = "sm_return"
               /\ UNCHANGED <<tschema, ttables, trows, tviews>>
    /\ UNCHANGED <<steps_locals, request, runs, source_db, restricted, target_conn,
                   op_errors, from_schema, metadata, source_tables, idx, result,
                   plain_locals>>

\* pydb_migration.migrate_tables: the per-table result
SM_MigrateTables ==
    /\ variant = "steps" /\ pc = "sm_tables"
    /\ result' = [i \in 1..Len(source_tables) |-> MigratedTable(source_tables[i])]
    /\ result_set' = TRUE
    /\ idx' = 1
    /\ pc' = IF RunsDdl(flags.step_metadata) THEN "sm_create" ELSE "sm_return"
    /\ UNCHANGED <<request, runs, source_db, target_db, faults, trace, restricted,
                   target_conn, errors, op_errors, from_schema, metadata,
                   source_tables, to_schema, plain_locals, include_tables,
                   exclude_tables, target_tables, indexes>>

\* create one table of sorted_tables on the target
SM_CreateTable ==
    /\ variant = "steps" /\ pc = "sm_create"
    /\ idx <= Len(source_tables)
    /\ source_tables[idx] \notin plain_views \cup mat_views
    /\ LET t == source_tables[idx]
       IN  \/ /\ CreateAccepted(t, ttables)
              /\ trace' = Append(trace, Stmt("CREATE", t, TRUE))
              /\ ttables' = ttables \cup {t}
              /\ UNCHANGED <<faults, errors>>
           \/ /\ \/ ~CreateAccepted(t, ttables) /\ UNCHANGED faults
                 \/ CreateAccepted(t, ttables) /\ CanFail /\ faults' = faults + 1
              /\ trace' = Append(trace, Stmt("CREATE", t, FALSE))
              /\ errors' = Append(errors, Err("104", "schema-construction", t))
              /\ UNCHANGED ttables
    /\ idx' = idx + 1
    /\ pc' = "sm_create"
    /\ UNCHANGED <<steps_locals, request, runs, source_db, tschema, trows, tviews,
                   restricted, target_conn, op_errors, from_schema, metadata,
                   source_tables, to_schema, result, plain_locals>>

\* migrate_view: fetch the script of the view from the source and, when the
\* error list is empty, execute it on the target
SM_MigrateView ==
    /\ variant = "steps" /\ pc = "sm_create"
    /\ idx <= Len(source_tables)
    /\ source_tables[idx] \in plain_views \cup mat_views
    /\ LET v == source_tables[idx]
       IN  \/ /\ errors = <<>>
              /\ ViewAccepted(v, ttables, tviews)
              /\ trace' = trace \o <<Stmt("VIEW SCRIPT", v, TRUE),
                                    Stmt("CREATE VIEW", v, TRUE)>>
              /\ tviews' = tviews \cup {v}
              /\ UNCHANGED <<faults, errors>>
           \/ /\ errors = <<>>
              /\ \/ ~ViewAccepted(v, ttables, tviews) /\ UNCHANGED faults
                 \/ ViewAccepted(v, ttables, tviews) /\ CanFail /\ faults' = faults + 1
              /\ trace' = trace \o <<Stmt("VIEW SCRIPT", v, TRUE),
                                    Stmt("CREATE VIEW", v, FALSE)>>
              /\ errors' = <<Err("101", "Failed", v), Err("db", "execute", v)>>
              /\ UNCHANGED tviews
           \/ /\ errors # <<>>
              /\ trace' = Append(trace, Stmt("VIEW SCRIPT", v, TRUE))
              /\ UNCHANGED <<faults, errors, tviews>>
           \/ /\ CanFail
              /\ faults' = faults + 1
              /\ trace' = Append(trace, Stmt("VIEW SCRIPT", v, FALSE))
              /\ errors' = Append(errors, Err("db", "view script", v))
              /\ UNCHANGED tviews
    /\ idx' = idx + 1
    /\ pc' = "sm_create"
    /\ UNCHANGED <<steps_locals, request, runs, source_db, tschema, ttables, trows,
                   restricted, target_conn, op_errors, from_schema, metadata,
                   source_tables, to_schema, result, plain_locals>>

\* migrate_metadata returns
SM_Return ==
    /\ variant = "steps"
    /\ \/ pc = "sm_return"
       \/ pc = "sm_create" /\ idx > Len(source_tables)
    /\ pc' = "done"
    /\ UNCHANGED <<steps_locals, request, runs, source_db, target_db, faults, trace,
                   restricted, target_conn, errors, op_errors, from_schema,
                   metadata, source_tables, to_schema, idx, result, plain_locals>>

\* ----------------------------------------------------- migrate_view
\* A view script is a sequence of pieces: a reference to an object qualified
\* by a schema, written unquoted (hr.t), double-quoted ("hr".t) or bracketed
\* ([hr].t), or the Oracle clause 'force editionable '.
RefForms == {"unquoted", "quoted", "bracketed"}
Ref(form, schema) == [form |-> form, schema |-> schema]
Clause == [form |-> "clause", schema |-> "force editionable "]

\* str.lower() on a script
LowerScript(script) ==
    [i \in 1..Len(script) |->
        IF script[i].form = "clause" THEN script[i]
        ELSE Ref(script[i].form, Lower(script[i].schema))]

\* str.replace(old, new) where old and new are a schema name followed by a
\* dot, written in the given form
ReplaceSchema(script, form, old, new) ==
    [i \in 1..Len(script) |->
        IF script[i].form = form /\ script[i].schema = old
        THEN Ref(form, new) ELSE script[i]]

\* str.replace("force editionable ", "")
ReplaceClause(script) == SelectSeq(script, LAMBDA piece : piece.form # "clause")

\* migrate_view: the script executed on the target for the script fetched
\* from the source
migrate_view(view_script, source_rdbms, schema_from, schema_to) ==
    LET lowered == LowerScript(view_script)
        unquoted == ReplaceSchema(lowered, "unquoted", schema_from, schema_to)
        quoted == ReplaceSchema(unquoted, "quoted", schema_from, schema_to)
    IN  IF source_rdbms = "oracle" THEN ReplaceClause(quoted) ELSE quoted

Pieces(schema) == {Ref(f, n) : f \in RefForms, n \in {schema, "SYS"}} \cup {Clause}

RECURSIVE SeqsUpTo(_, _)
SeqsUpTo(S, n) ==
    IF n = 0 THEN {<<>>}
    ELSE LET shorter == SeqsUpTo(S, n - 1)
         IN  shorter \cup {Append(q, x) : q \in {r \in shorter : Len(r) = n - 1}, x \in S}

ViewArgs ==
    {[view_script |-> script, source_rdbms |-> rdbms, source_schema |-> schema,
      target_schema |-> "public"] :
        script \in UNION {SeqsUpTo(Pieces(n), MaxTokens) \ {<<>>} : n \in {"hr", "Hr", "HR"}},
        rdbms \in {"oracle", "sqlserver"},
        schema \in {"hr", "Hr", "HR"}}

\* ---------------------------------------- the columns of migrate_plain_data
\* the columns a source table may have: name and source type
ColumnPalette ==
    { <<"id", "INTEGER">>, <<"name", "VARCHAR">>, <<"photo", "BLOB">>,
      <<"notes", "CLOB">> }

LobTypes == {"BLOB", "CLOB"}

\* migrate_metadata: the entry built for a column of a migrated table
column_data(column) ==
    ("name" :> column[1]) @@ ("source-type" :> column[2])

\* dict.get(key): the value, or None ("None") when the key is absent
Get(dict, key) == IF key \in DOMAIN dict THEN dict[key] ELSE "None"

\* pydb_types.is_large_binary; of_none is its answer when given None
is_large_binary(type, of_none) ==
    IF type = "None" THEN of_none ELSE type \in LobTypes

\* the key under which migrate_plain_data looks the source type up
SourceTypeKey == "source_type"

\* migrate_plain_data: the names of the columns to select and insert
column_names(table_columns, of_none) ==
    LET kept == SelectSeq(table_columns, LAMBDA column :
                    ~is_large_binary(Get(column, SourceTypeKey), of_none))
    IN  [i \in 1..Len(kept) |-> Get(kept[i], "name")]

\* lists of distinct columns
ColumnLists ==
    {cols \in SeqsUpTo(ColumnPalette, MaxColumns) :
        cols # <<>> /\ Cardinality(Range(cols)) = Len(cols)}

ColumnArgs ==
    {[columns |-> cols, of_none |-> b] : cols \in ColumnLists, b \in BOOLEAN}

\* --------------------------------------------------- setup_target_table
\* the attributes and methods a sqlalchemy Column answers to, as far as
\* setup_target_table asks; it has no 'lower'
ColumnMembers == {"name", "type", "server_default", "default"}

\* the defaults setup_target_table means to replace by null
ReplacedDefaults == {"sysdate", "systime"}

\* setup_target_table, the wrap-up of one column: the column as it leaves
\* it and the errors it appends; 'column.lower()' raises AttributeError,
\* which the except clause reports as error 104
setup_column(column) ==
    LET stripped == [column EXCEPT !.server_default = "None"]
    IN  IF column.default = "None"
        THEN [column |-> stripped, errors |-> <<>>]
        ELSE IF "lower" \notin ColumnMembers
        THEN [column |-> stripped,
              errors |-> <<Err("104", "AttributeError", 0)>>]
        ELSE [column |-> IF Lower(column.default) \in ReplacedDefaults
                         THEN [stripped EXCEPT !.default = "None"]
                         ELSE stripped,
              errors |-> <<>>]

\* pydb_migrator.setup_target_table
setup_target_table(errs, columns) ==
    LET done == [i \in 1..Len(columns) |-> setup_column(columns[i])]
    IN  [columns |-> [i \in 1..Len(columns) |-> done[i].column],
         errors |-> errs \o Flatten([i \in 1..Len(columns) |-> done[i].errors])]

\* the columns a source table may have: server default and declared default
DefaultChoices == {"None", "sysdate", "now", "0"}

SetupArgs ==
    {[columns |-> cols] :
        cols \in SeqsUpTo([server_default : {"None", "nextval"},
                           default : DefaultChoices], MaxColumns) \ {<<>>}}

\* ------------------------------------------------------ the type of a column
\* mutant: the override is looked at only when no native type exists
migrate_column_native_first(external_columns, key, native, reference) ==
    IF native # "none" THEN native
    ELSE IF key \in DOMAIN external_columns THEN external_columns[key]
    ELSE reference

\* pydb_migration.migrate_tables: the target type of column 'table.column':
\* the override, else the native equivalent, else the reference type
migrate_column(external_columns, key, native, reference) ==
    IF key \in DOMAIN external_columns THEN external_columns[key]
    ELSE IF native # "none" THEN native
    ELSE reference

ColumnKeys == {"persons.id", "persons.name"}

TypeArgs ==
    {[external_columns |-> [k \in keys |-> "NUMERIC(20)"], key |-> key,
      native |-> native, reference |-> "DECIMAL"] :
        keys \in SUBSET ColumnKeys, key \in ColumnKeys,
        native \in {"BIGINT", "none"}}

\* ------------------------------------------------------------- the reply
\* A reply is None (null) or a dict; a dict maps field names to values.
None == [null |-> TRUE, dict |-> <<>>]
Dict(d) == [null |-> FALSE, dict |-> d]

\* mutant: the fields of the reply are not copied
DictUpdateDropped(d, e) == d

\* dict.update: the fields of d, then those of e over them
DictUpdate(d, e) ==
    [k \in DOMAIN d \cup DOMAIN e |-> IF k \in DOMAIN e THEN e[k] ELSE d[k]]

\* pypomes_core.validate_format_errors: the errors as a list of
\* {code, description} entries
validate_format_errors(errs) ==
    [i \in 1..Len(errs) |->
        [code |-> errs[i].code,
         description |-> <<errs[i].what, errs[i].tbl, errs[i].names>>]]

\* app_main._build_response
build_response(errs, reply) ==
    IF Len(errs) = 0
    THEN [status_code |-> 200, json |-> reply]
    ELSE LET reply_err == [errors |-> validate_format_errors(errs)]
         IN  [status_code |-> 400,
              json |-> Dict(IF ~reply.null THEN DictUpdate(reply_err, reply.dict)
                            ELSE reply_err)]

\* app_main.handle_exception, for an exception other than NotFound
handle_exception(err_msg) ==
    [status_code |-> 500, json |-> Dict([errors |-> <<err_msg>>])]

\* what migrate (migrator) and migrate_metadata (steps) return
Reply ==
    IF variant = "migrator"
    THEN Dict([source |-> source_schema, target |-> "target",
               migrated_tables |-> result])
    ELSE IF result_set THEN Dict([migrated_tables |-> result])
    ELSE None

\* the response to the request, once it has ended
Response ==
    IF pc = "raised" THEN handle_exception("exception")
    ELSE build_response(errors, Reply)

\* ---------------------------------------------- functions called alone
\* the replies and the error lists given to _build_response
ReplyChoices ==
    { None, Dict(<<>>), Dict([status |-> "Configuration updated"]),
      Dict([source |-> "hr", target |-> "public",
            migrated_tables |-> <<MigratedTable(1)>>]) }

ErrorChoices ==
    { <<>>, <<Err("142", "not found", 0)>>,
      <<Err("104", "create", 1), Err("db", "insert", 1)>> }

ResponseArgs == {[errors |-> e, reply |-> r] : e \in ErrorChoices, r \in ReplyChoices}

UnitArgs(u) ==
    CASE u = "migrate_view" -> ViewArgs
      [] u = "column_names" -> ColumnArgs
      [] u = "migrate_column" -> TypeArgs
      [] u = "_build_response" -> ResponseArgs
      [] u = "setup_target_table" -> SetupArgs

InitUnits ==
    /\ variant = "unit"
    /\ pc = "call"
    /\ unit \in {"migrate_view", "column_names", "migrate_column", "_build_response",
                 "setup_target_table"}
    /\ args \in UnitArgs(unit)
    /\ out = <<>>
    /\ faults = 0
    /\ trace = <<>>
    /\ source_schema = "hr"
    /\ data_tables = <<>>
    /\ fks = {}
    /\ src_count = [t \in Tables |-> 0]
    /\ tschema = FALSE
    /\ ttables = {}
    /\ trows = [t \in Tables |-> <<>>]
    /\ restricted = TRUE
    /\ target_conn = "none"
    /\ errors = <<>>
    /\ op_errors = <<>>
    /\ from_schema = ""
    /\ metadata = {}
    /\ source_tables = <<>>
    /\ to_schema = FALSE
    /\ idx = 0
    /\ result = <<>>
    /\ offset = 0
    /\ migrated_count = 0
    /\ bulk_data = <<>>
    /\ tbl_errors = <<>>
    /\ flags = [step_metadata |-> TRUE, process_indexes |-> FALSE,
                process_views |-> FALSE, process_mviews |-> FALSE]
    /\ include_tables = <<>>
    /\ exclude_tables = <<>>
    /\ target_tables = <<>>
    /\ indexes = {}
    /\ tviews = {}
    /\ result_set = FALSE
    /\ scheme = <<<<>>, <<>>>>
    /\ run = 1
    /\ first_target = <<tschema, ttables, trows, tviews>>
    /\ warranted = "unasked"
    /\ ORCL_DB = OrclUnset
    /\ client_initialized = FALSE

\* everything but the position of the call and its result
called == <<variant, faults, trace, source_schema, data_tables, fks, src_count,
            tschema, ttables, trows, restricted, target_conn, errors,
            op_errors, from_schema, metadata, source_tables, to_schema, idx,
            result, offset, migrated_count, bulk_data, tbl_errors, flags,
            include_tables, exclude_tables, target_tables, indexes, tviews,
            result_set, scheme, run, first_target, unit, args, warranted,
            ORCL_DB, client_initialized>>

\* migrate_view rewrites the script it fetched and executes it
U_MigrateView ==
    /\ unit = "migrate_view" /\ pc = "call"
    /\ out' = migrate_view(args.view_script, args.source_rdbms,
                           args.source_schema, args.target_schema)
    /\ pc' = "returned"
    /\ UNCHANGED called

\* migrate_plain_data builds the column list of a table
U_ColumnNames ==
    /\ unit = "column_names" /\ pc = "call"
    /\ out' = column_names([i \in 1..Len(args.columns) |-> column_data(args.columns[i])],
                           args.of_none)
    /\ pc' = "returned"
    /\ UNCHANGED called

\* migrate_tables gives a column its target type
U_MigrateColumn ==
    /\ unit = "migrate_column" /\ pc = "call"
    /\ out' = migrate_column(args.external_columns, args.key, args.native,
                             args.reference)
    /\ pc' = "returned"
    /\ UNCHANGED called

\* _build_response builds the response of a request
U_BuildResponse ==
    /\ unit = "_build_response" /\ pc = "call"
    /\ out' = build_response(args.errors, args.reply)
    /\ pc' = "returned"
    /\ UNCHANGED called

\* migrate_metadata sets the columns of a table up for the target
U_SetupTargetTable ==
    /\ unit = "setup_target_table" /\ pc = "call"
    /\ out' = setup_target_table(<<>>, args.columns)
    /\ pc' = "returned"
    /\ UNCHANGED called

NextUnits ==
    \/ U_SetupTargetTable
    \/ U_MigrateView
    \/ U_ColumnNames
    \/ U_MigrateColumn
    \/ U_BuildResponse

SpecUnits == InitUnits /\ [][NextUnits]_vars

\* --------------------------------------------------- the Oracle adapter
\* A string of the request is a sequence of characters; "sup2" stands for
\* the superscript two, which str.isnumeric accepts and int refuses.
Numerals == <<"0", "1", "2", "3", "4", "5", "6", "7", "8", "9">>
Digits == Range(Numerals)
NumericChars == Digits \cup {"sup2"}

\* str.isnumeric: at least one character, all of them numeric
isnumeric(str) == Len(str) > 0 /\ \A i \in 1..Len(str) : str[i] \in NumericChars

\* int(str) raises ValueError unless the characters are decimal digits
IntAccepts(str) == Len(str) > 0 /\ \A i \in 1..Len(str) : str[i] \in Digits

DigitValue(c) == (CHOOSE i \in 1..Len(Numerals) : Numerals[i] = c) - 1

RECURSIVE int(_)
int(str) ==
    IF Len(str) = 0 THEN 0
    ELSE int(SubSeq(str, 1, Len(str) - 1)) * 10 + DigitValue(str[Len(str)])

\* the truth value of scheme.get(key) for a string or None
Truthy(value) == value # "None" /\ value # ""

\* the truth value of scheme.get("db-port")
PortGiven(sch) == "db-port" \in DOMAIN sch /\ sch["db-port"] # <<>>

\* the assignment of one parameter of set_connection_params
Taken(sch, key, old) == IF Truthy(Get(sch, key)) THEN sch[key] ELSE old

\* pydb_oracle.set_connection_params, on the globals g: the globals and
\* the errors it leaves, and whether int raised
set_connection_params(errs, sch, g) ==
    LET e1 == IF Truthy(Get(sch, "db-driver"))
              THEN Append(errs, ErrNames("113", "not applicable", <<"@db-driver">>))
              ELSE errs
        numeric == PortGiven(sch) /\ isnumeric(sch["db-port"])
        g1 == IF numeric THEN [g EXCEPT !.PORT = <<int(sch["db-port"])>>] ELSE g
        e2 == IF PortGiven(sch) /\ ~numeric
              THEN Append(e1, ErrNames("128", "must be type int", <<"@ORCL_DB_PORT">>))
              ELSE e1
        g2 == IF Len(e2) = 0
              THEN [g1 EXCEPT !.NAME = Taken(sch, "db-name", @),
                              !.USER = Taken(sch, "db-user", @),
                              !.PWD = Taken(sch, "db-pwd", @),
                              !.CLIENT = Taken(sch, "db-client", @),
                              !.HOST = Taken(sch, "db-host", @)]
              ELSE g1
    IN  IF numeric /\ ~IntAccepts(sch["db-port"])
        THEN [globals |-> g, errors |-> e1, raised |-> TRUE]
        ELSE [globals |-> g2, errors |-> e2, raised |-> FALSE]

\* the parameters assert_connection_params looks at, in its order
Required == <<"NAME", "USER", "PWD", "HOST", "PORT">>

\* "not ORCL_DB_x": None, the empty string or the number 0
Falsy(g, param) ==
    IF param = "PORT" THEN g.PORT = <<>> \/ g.PORT = <<0>>
    ELSE ~Truthy(g[param])

\* pydb_oracle.assert_connection_params
assert_connection_params(errs, g) ==
    LET Absent(param) == Falsy(g, param)
        missing == SelectSeq(Required, Absent)
        e == errs \o [i \in 1..Len(missing) |->
                         ErrNames("112", "required attribute", <<missing[i]>>)]
    IN  [errors |-> e, return |-> Len(e) = 0]

\* pydb_oracle.get_connection_params
get_connection_params(g) ==
    [rdbms |-> "oracle", name |-> g.NAME, user |-> g.USER, password |-> g.PWD,
     host |-> g.HOST, port |-> g.PORT, client |-> g.CLIENT]

\* app_main.handle_rdbms, method GET: the parameters go into the response
\* as the adapter returned them
handle_rdbms_get(g) == build_response(<<>>, Dict(get_connection_params(g)))

\* app_main.handle_rdbms, method POST
handle_rdbms_post(sch, g) ==
    LET call == set_connection_params(<<>>, sch, g)
    IN  IF call.raised THEN handle_exception("ValueError")
        ELSE build_response(call.errors,
                            IF Len(call.errors) = 0
                            THEN Dict([status |-> "configuration updated"])
                            ELSE None)

\* the values a request gives to a parameter
PortTexts == { <<>>, <<"0">>, <<"8", "0">>, <<"-", "1">>, <<"sup2">> }
Passwords == {"tiger", "lion"}

\* a scheme giving every parameter
FullSchemes ==
    { ("db-name" :> "orcl") @@ ("db-user" :> "scott") @@ ("db-pwd" :> pwd)
      @@ ("db-host" :> "dbhost") @@ ("db-port" :> port)
      @@ ("db-client" :> "instantclient") @@ ("db-driver" :> "odbc") :
      pwd \in Passwords, port \in PortTexts }

\* the parameters a request gives: any of name, password, port and driver,
\* with or without user, host and client
KeySets ==
    { some \cup others : some \in SUBSET {"db-name", "db-pwd", "db-port", "db-driver"},
                         others \in {{}, {"db-user", "db-host", "db-client"}} }

\* the schemes of a configure-rdbms request
SchemeChoices ==
    { [key \in keys |-> full[key]] : keys \in KeySets, full \in FullSchemes }

\* the errors list a caller hands to assert_connection_params
IncomingErrors == { <<>>, <<ErrNames("112", "required attribute", <<"from-rdbms">>)>> }

InitOracle ==
    /\ variant = "oracle"
    /\ pc = "idle"
    /\ unit = "none"
    /\ args = <<>>
    /\ out = <<>>
    /\ ORCL_DB = OrclUnset
    /\ client_initialized = FALSE
    /\ faults = 0
    /\ trace = <<>>
    /\ source_schema = "hr"
    /\ data_tables = <<>>
    /\ fks = {}
    /\ src_count = [t \in Tables |-> 0]
    /\ tschema = FALSE
    /\ ttables = {}
    /\ trows = [t \in Tables |-> <<>>]
    /\ restricted = TRUE
    /\ target_conn = "none"
    /\ errors = <<>>
    /\ op_errors = <<>>
    /\ from_schema = ""
    /\ metadata = {}
    /\ source_tables = <<>>
    /\ to_schema = FALSE
    /\ idx = 0
    /\ result = <<>>
    /\ offset = 0
    /\ migrated_count = 0
    /\ bulk_data = <<>>
    /\ tbl_errors = <<>>
    /\ flags = [step_metadata |-> TRUE, process_indexes |-> FALSE,
                process_views |-> FALSE, process_mviews |-> FALSE]
    /\ include_tables = <<>>
    /\ exclude_tables = <<>>
    /\ target_tables = <<>>
    /\ indexes = {}
    /\ tviews = {}
    /\ result_set = FALSE
    /\ scheme = <<<<>>, <<>>>>
    /\ run = 1
    /\ first_target = <<tschema, ttables, trows, tviews>>
    /\ warranted = "unasked"

\* everything but the adapter's globals, the call and what it left
configured == <<variant, pc, faults, source_schema, data_tables, fks,
                src_count, tschema, ttables, trows, restricted, target_conn,
                op_errors, from_schema, metadata, source_tables, to_schema,
                idx, result, offset, migrated_count, bulk_data, tbl_errors,
                flags, include_tables, exclude_tables, target_tables, indexes,
                tviews, result_set, scheme, run, first_target, warranted>>

\* a configure-rdbms request reaches set_connection_params with the
\* empty errors list of handle_rdbms
O_SetConnectionParams ==
    /\ variant = "oracle"
    /\ \E sch \in SchemeChoices :
          LET call == set_connection_params(<<>>, sch, ORCL_DB)
          IN  /\ unit' = "set_connection_params"
              /\ args' = [errors |-> <<>>, scheme |-> sch]
              /\ ORCL_DB' = call.globals
              /\ errors' = call.errors
              /\ out' = [before |-> ORCL_DB, raised |-> call.raised,
                         return |-> handle_rdbms_post(sch, ORCL_DB)]
    /\ UNCHANGED <<configured, trace, client_initialized>>

\* assert_connection_params is called with the errors list of its caller
O_AssertConnectionParams ==
    /\ variant = "oracle"
    /\ \E errs \in IncomingErrors :
          LET call == assert_connection_params(errs, ORCL_DB)
          IN  /\ unit' = "assert_connection_params"
              /\ args' = [errors |-> errs, scheme |-> <<>>]
              /\ errors' = call.errors
              /\ out' = [before |-> ORCL_DB, raised |-> FALSE,
                         return |-> call.return]
    /\ UNCHANGED <<configured, trace, client_initialized, ORCL_DB>>

\* a get-rdbms request
O_GetConnectionParams ==
    /\ variant = "oracle"
    /\ unit' = "get_connection_params"
    /\ args' = [errors |-> <<>>, scheme |-> <<>>]
    /\ errors' = <<>>
    /\ out' = [before |-> ORCL_DB, raised |-> FALSE,
               return |-> handle_rdbms_get(ORCL_DB)]
    /\ UNCHANGED <<configured, trace, client_initialized, ORCL_DB>>

MayInitializeAgain(client, initialized) == client # "None"

\* isinstance(ORCL_DB_CLIENT, str) and not client_initialized
MayInitialize(client, initialized) == client # "None" /\ ~initialized

\* initialize is called with an empty errors list; init_oracle_client
\* returns or raises
O_Initialize ==
    /\ variant = "oracle"
    /\ MayInitialize(ORCL_DB.CLIENT, client_initialized) =>
           Len(trace) < MaxInitCalls
    /\ unit' = "initialize"
    /\ args' = [errors |-> <<>>, scheme |-> <<>>]
    /\ IF MayInitialize(ORCL_DB.CLIENT, client_initialized)
       THEN \E ok \in BOOLEAN :
               /\ trace' = Append(trace, StmtRows("INIT_CLIENT", 0, ok,
                                                  <<ORCL_DB.CLIENT>>))
               /\ client_initialized' = IF ok THEN TRUE ELSE client_initialized
               /\ errors' = IF ok THEN <<>>
                            ELSE <<Err("db", "init_oracle_client", 0)>>
               /\ out' = [before |-> ORCL_DB, raised |-> FALSE,
                          return |-> "None", called |-> TRUE]
       ELSE /\ errors' = <<>>
            /\ out' = [before |-> ORCL_DB, raised |-> FALSE,
                       return |-> "None", called |-> FALSE]
            /\ UNCHANGED <<trace, client_initialized>>
    /\ UNCHANGED <<configured, ORCL_DB>>

NextOracle ==
    \/ O_Initialize
    \/ O_SetConnectionParams
    \/ O_AssertConnectionParams
    \/ O_GetConnectionParams

SpecOracle == InitOracle /\ [][NextOracle]_vars

Next ==
    \/ MM_BuildEngines
    \/ MM_Reflect
    \/ MM_ProbeTarget
    \/ MM_DropTable
    \/ MM_CreateSchema
    \/ MM_SetupTables
    \/ MM_CreateTable
    \/ M_Connect
    \/ M_Disable
    \/ PD_BeginTable
    \/ PD_Insert
    \/ PD_NextSelect
    \/ PD_EndTable
    \/ PD_Raise
    \/ M_Restore
    \/ M_Close
    \/ M_Finish
    \/ M_Rerun
    \/ MD_Validate
    \/ SM_BuildEngines
    \/ SM_Reflect
    \/ SM_FilterAndSort
    \/ SM_MigrateSchema
    \/ SM_MigrateTables
    \/ SM_CreateTable
    \/ SM_MigrateView
    \/ SM_Return

Spec == Init /\ [][Next]_vars

\* one call of migrate (migrator variant), which runs on until it returns
\* or raises
NextMigrator ==
    \/ MM_BuildEngines
    \/ MM_Reflect
    \/ MM_ProbeTarget
    \/ MM_DropTable
    \/ MM_CreateSchema
    \/ MM_SetupTables
    \/ MM_CreateTable
    \/ M_Connect
    \/ M_Disable
    \/ PD_BeginTable
    \/ PD_Insert
    \/ PD_NextSelect
    \/ PD_EndTable
    \/ PD_Raise
    \/ M_Restore
    \/ M_Close
    \/ M_Finish

SpecLive == InitMigrator /\ [][NextMigrator]_vars /\ WF_vars(NextMigrator)

\* ===================================================================
\* Properties
\* ===================================================================
DataOps == {"SELECT", "INSERT"}
DdlOps == {"DROP", "CREATE SCHEMA", "CREATE", "CREATE VIEW"}
PdStates == {"pd_table", "pd_loop", "pd_select"}

Positions == 1..Len(trace)

\* the statements of kind op on table t, in the order of execution
StmtsOf(op, t) == SelectSeq(trace, LAMBDA e : e.op = op /\ e.tbl = t)

\* a SELECT or an INSERT of table t has failed
DataFailed(t) == \E i \in Positions :
    trace[i].op \in DataOps /\ trace[i].tbl = t /\ ~trace[i].ok

\* the rows inserted into table t by the request, in insertion order
RECURSIVE RowsOf(_)
RowsOf(stmts) == IF stmts = <<>> THEN <<>> ELSE Head(stmts).rows \o RowsOf(Tail(stmts))

Inserted(t) == RowsOf(SelectSeq(StmtsOf("INSERT", t), LAMBDA e : e.ok))

\* migrate_plain_data has recorded the status of the i-th migrated table
Processed(i) ==
    /\ variant = "migrator"
    /\ i \in 1..Len(result)
    /\ StmtsOf("SELECT", result[i].table) # <<>>
    /\ pc # "raised"
    /\ pc \in PdStates => i < idx

\* the rowids 1..n in increasing order
UpTo(n) == [i \in 1..n |-> i]

\* C1: for every table processed by migrate_plain_data the status is 'full'
\* only if no SELECT (the first one included) and no INSERT of the table
\* failed and the last page fetched was empty; it is 'partial' if a statement
\* failed after at least one batch was inserted, 'none' if a statement failed
\* before any batch was inserted.
C1_StatusReflectsErrors ==
    \A i \in 1..Len(result) : Processed(i) =>
        LET t == result[i].table
            sel == StmtsOf("SELECT", t)
        IN  /\ result[i].status = "full" =>
                ~DataFailed(t) /\ sel[Len(sel)].rows = <<>>
            /\ DataFailed(t) /\ Inserted(t) # <<>> => result[i].status = "partial"
            /\ DataFailed(t) /\ Inserted(t) = <<>> => result[i].status = "none"

\* C2: in every terminal state of migrate in which the session restrictions
\* were disabled on the target connection, restore_session_restrictions was
\* executed afterwards and the restrictions are in force again.
C2_RestoredOnEveryExit ==
    (variant = "migrator" /\ pc \in {"done", "raised"}) =>
        \A i \in Positions : trace[i].op = "DISABLE" =>
            /\ \E j \in Positions : j > i /\ trace[j].op = "RESTORE"
            /\ restricted

\* C3: for a table whose recorded status is 'full', the rows inserted are
\* the source rows, each exactly once, and the recorded count is the number
\* of source rows.
C3_FullMeansEveryRowOnce ==
    \A i \in 1..Len(result) : (Processed(i) /\ result[i].status = "full") =>
        LET t == result[i].table
        IN  /\ Inserted(t) = UpTo(src_count[t])
            /\ result[i].count = src_count[t]

UnknownNames ==
    IF variant = "migrator" THEN Range(data_tables) \ Tables
    ELSE (Range(scheme[1]) \cup Range(scheme[2])) \ Objects

\* migrate_metadata has gone past the selection of the tables
PastSelection == pc \notin {"md_validate", "mm_engines", "mm_schema", "sm_engines", "sm_reflect", "sm_filter"}

Reflected == \E i \in Positions : trace[i] = Stmt("REFLECT", 0, TRUE)

NotFoundErrors == {i \in 1..Len(errors) : errors[i].what = "not found"}

\* C5: when a name of the request is not a table of the source schema, no
\* DROP, CREATE SCHEMA, CREATE TABLE or view creation is executed on the
\* target, and once the reflected tables have been matched with the request an
\* error lists the missing names.
C5_UnknownNameRefused ==
    UnknownNames # {} =>
        /\ \A i \in Positions : trace[i].op \notin DdlOps
        /\ (Reflected /\ PastSelection /\ pc # "raised") =>
              \E i \in NotFoundErrors : UnknownNames \subseteq Range(errors[i].names)

C5_Witness ==
    /\ pc = "done"
    /\ UnknownNames # {}
    /\ Reflected
    /\ NotFoundErrors # {}

\* C6: a SELECT on the source or an INSERT on the target is issued for a
\* table only if the metadata phase reported no error.
C6_PlainDataOnlyAfterCleanMetadata ==
    (variant = "migrator" /\ pc \in PdStates) =>
        ((\E i \in Positions : trace[i].op \in DataOps) => errors = <<>>)

\* the status and the count the statements of table t alone account for
OwnCount(t) == Len(Inserted(t))

OwnFailure(t) ==
    \/ \E i \in Positions : trace[i].op = "INSERT" /\ trace[i].tbl = t /\ ~trace[i].ok
    \/ \E k \in 2..Len(StmtsOf("SELECT", t)) : ~StmtsOf("SELECT", t)[k].ok

OwnStatus(t) ==
    IF OwnFailure(t) THEN (IF OwnCount(t) # 0 THEN "partial" ELSE "none") ELSE "full"

\* C7: after a failed SELECT or INSERT of table T no further SELECT or INSERT
\* is issued for T; when migrate_plain_data returns every table of the list
\* has been processed, its status and count being those of its own batches;
\* and the errors are in the request's error list when migrate returns.
C7_FailureIsolatedPerTable ==
    variant = "migrator" =>
        /\ \A i, j \in Positions :
              (i < j /\ trace[i].op \in DataOps /\ ~trace[i].ok) =>
                  ~(trace[j].op \in DataOps /\ trace[j].tbl = trace[i].tbl)
        /\ \A k \in 1..Len(result) : Processed(k) =>
              /\ result[k].status = OwnStatus(result[k].table)
              /\ result[k].count = OwnCount(result[k].table)
              /\ ~DataFailed(result[k].table) =>
                    /\ result[k].status = "full"
                    /\ Inserted(result[k].table) = UpTo(src_count[result[k].table])
        /\ (pc \in {"m_restore", "m_close", "m_finish", "done"}
              /\ \E i \in Positions : trace[i].op \in DataOps) =>
              \A k \in 1..Len(result) : Processed(k)
        /\ pc = "done" =>
              \A i \in Positions : (trace[i].op \in DataOps /\ ~trace[i].ok) =>
                  \E e \in Range(errors) : e.tbl = trace[i].tbl /\ e.code = "db"

C7_Witness ==
    /\ pc = "done"
    /\ Len(result) = 2
    /\ DataFailed(result[1].table)
    /\ result[2].status = "full"
    /\ result[2].count = MaxRows
    /\ src_count[result[2].table] = MaxRows

\* C8: a DROP or CREATE on the target comes after the reflection of the
\* source and the selection of the tables, and no row is inserted into a
\* target table before the last DDL statement of the request.
C8_StagesInOrder ==
    /\ \A j \in Positions : trace[j].op \in DdlOps =>
          /\ \E i \in Positions : i < j /\ trace[i] = Stmt("REFLECT", 0, TRUE)
          /\ PastSelection
    /\ \A i, j \in Positions :
          (trace[i].op = "INSERT" /\ trace[j].op \in DdlOps) => j < i

C8_Witness ==
    /\ pc = "done"
    /\ \E i, j, k \in Positions :
          /\ i < j /\ j < k
          /\ trace[i].op = "REFLECT"
          /\ trace[j].op = "CREATE"
          /\ trace[k].op = "INSERT" /\ trace[k].ok

OnTarget == Range(source_tables) \cap ttables

\* a CREATE of table t failed although nothing else went wrong with it: the
\* table was still there when the statement was executed
AlreadyExisted(t) ==
    /\ t \in ttables
    /\ \E i \in Positions : trace[i] = Stmt("CREATE", t, FALSE)

\* C11: when the same request is run a second time on the unchanged source
\* and finds the target schema present, and no call to a database fails for
\* an outside reason, the target ends in the state the first run left: no
\* CREATE fails on a table that already exists, every selected table of the
\* target holds each source row once, and the other tables are as they were.
C11_SecondRunSameTarget ==
    (variant = "migrator" /\ run = 2 /\ pc = "done" /\ faults = 0
        /\ first_target[1]) =>
        /\ <<tschema, ttables, trows, tviews>> = first_target
        /\ \A t \in Range(source_tables) : ~AlreadyExisted(t)
        /\ \A t \in OnTarget : trows[t] = UpTo(src_count[t])
        /\ \A t \in Tables \ Range(source_tables) :
              /\ (t \in ttables) = (t \in first_target[2])
              /\ trows[t] = first_target[3][t]

\* the tables a record was built for or a statement was executed on
Handled ==
    {result[i].table : i \in 1..Len(result)} \cup
    {trace[i].tbl : i \in {j \in Positions : trace[j].op \in DataOps \cup {"CREATE"}}}

\* the per-table records a response carries (none when it carries no result)
RecordsOf(response) ==
    IF response.json.null \/ "migrated_tables" \notin DOMAIN response.json.dict
    THEN <<>>
    ELSE response.json.dict.migrated_tables

\* C12: when a request ends with a failure, the reply is not null, the
\* response carries the error list and the records of every table handled
\* so far, with the counts and statuses recorded for them.
C12_FailureKeepsPartialResult ==
    ((pc = "done" /\ errors # <<>>) \/ pc = "raised") =>
        /\ ~Reply.null
        /\ "errors" \in DOMAIN Response.json.dict
        /\ RecordsOf(Response) = result
        /\ Handled \subseteq {RecordsOf(Response)[i].table :
                                  i \in 1..Len(RecordsOf(Response))}

\* the steps variant has built its list of migration candidates
Filtered ==
    /\ variant = "steps"
    /\ Reflected
    /\ pc \notin {"md_validate", "sm_engines", "sm_reflect", "sm_filter"}

\* C13: in the steps variant, when include_tables is not empty and names
\* only objects of the source schema, the migration candidates are exactly
\* the objects it names and the metadata holds no other reflected table.
C13_IncludeListKeptExactly ==
    (Filtered /\ scheme[1] # <<>> /\ Range(scheme[1]) \subseteq Objects) =>
        /\ Range(target_tables) = Range(scheme[1])
        /\ metadata = Range(scheme[1])

\* C14: in the steps variant a plain view is a migration candidate only if
\* process_views is set and a materialized view only if process_mviews is
\* set, whatever include_tables and exclude_tables hold.
C14_ViewsOnlyWhenFlagged ==
    Filtered =>
        /\ (\E v \in plain_views : v \in Range(target_tables)) => flags.process_views
        /\ (\E v \in mat_views : v \in Range(target_tables)) => flags.process_mviews

\* C15: in the steps variant the statement creating a plain or materialized
\* view is executed on the target only after the CREATE of every selected
\* table.
C15_ViewsAfterAllTables ==
    variant = "steps" =>
        \A i \in Positions : trace[i].op = "CREATE VIEW" =>
            \A t \in Range(source_tables) \cap Tables :
                \E j \in Positions : j < i /\ trace[j].op = "CREATE" /\ trace[j].tbl = t

\* the function u has been called alone and has returned
Returned(u) == unit = u /\ pc = "returned"

\* C16: the script migrate_view executes on the target holds no reference
\* qualified by the source schema, in unquoted, double-quoted or bracketed
\* form, whatever the letter case of the canonical source schema name.
C16_ScriptRewritten ==
    Returned("migrate_view") =>
        \A i \in 1..Len(out) :
            out[i].form \in RefForms => Lower(out[i].schema) # Lower(args.source_schema)

\* the names and the source types of the columns of the table record
NonLob(columns) == SelectSeq(columns, LAMBDA column : column[2] \notin LobTypes)

\* C17: the column list migrate_plain_data builds for a table holds no
\* column of a large-binary source type and holds every other column of the
\* table's record.
C17_NoLobColumnSelected ==
    Returned("column_names") =>
        out = [i \in 1..Len(NonLob(args.columns)) |-> NonLob(args.columns)[i][1]]

\* C18: a column whose 'table.column' key is in external_columns is given
\* the override as target type, whatever the native and reference mappings
\* yield.
C18_OverrideWins ==
    (Returned("migrate_column") /\ args.key \in DOMAIN args.external_columns) =>
        out = args.external_columns[args.key]

C18_Witness ==
    /\ Returned("migrate_column")
    /\ args.key \in DOMAIN args.external_columns
    /\ args.native = "BIGINT"
    /\ out = "NUMERIC(20)"

\* C19: _build_response answers 200 with the reply as body exactly when the
\* error list is empty; otherwise it answers 400 with a body whose 'errors'
\* field holds the formatted errors and which carries every field of the
\* reply when the reply is a dict.
C19_ResponseStatus ==
    Returned("_build_response") =>
        /\ (out.status_code = 200) = (args.errors = <<>>)
        /\ args.errors = <<>> => out.json = args.reply
        /\ args.errors # <<>> =>
              /\ out.status_code = 400
              /\ ~out.json.null
              /\ "errors" \in DOMAIN out.json.dict
              /\ Len(out.json.dict.errors) = Len(args.errors)
              /\ \A i \in 1..Len(args.errors) :
                    out.json.dict.errors[i].code = args.errors[i].code
              /\ ~args.reply.null =>
                    \A k \in DOMAIN args.reply.dict :
                        /\ k \in DOMAIN out.json.dict
                        /\ out.json.dict[k] = args.reply.dict[k]

C19_Witness ==
    /\ Returned("_build_response")
    /\ Len(args.errors) = 2
    /\ ~args.reply.null
    /\ "migrated_tables" \in DOMAIN args.reply.dict
    /\ out.status_code = 400
    /\ out.json.dict.migrated_tables = <<MigratedTable(1)>>

\* a connection to the source or to the target was opened
Connected == trace # <<>> \/ target_conn # "none"

\* C20: migrate_data launches the migration only when assert_migration
\* reported no error; when it reported one (include-tables and
\* exclude-tables both given, for instance) the response is HTTP 400 and no
\* connection to the source or to the target is opened.
C20_NoMigrationWithoutValidation ==
    /\ warranted = "no" =>
          /\ pc = "done"
          /\ ~Connected
          /\ Response.status_code = 400
    /\ (warranted \in {"yes", "no"} /\ scheme[1] # <<>> /\ scheme[2] # <<>>) =>
          /\ warranted = "no"
          /\ \E e \in Range(errors) : e.code = "142"
    /\ (warranted # "unasked" /\ pc \notin {"md_validate", "done"}) =>
          warranted = "yes"

C20_Witness ==
    /\ warranted = "no"
    /\ scheme[1] # <<>> /\ scheme[2] # <<>>
    /\ pc = "done"
    /\ Response.status_code = 400

\* ------------------------------------------------------------------ C21
\* the text of a port that is a positive integer
PositiveInt(str) == IntAccepts(str) /\ int(str) > 0

\* the last call was set_connection_params with a 'db-port' that is given
\* and is not a positive integer
BadPortGiven ==
    /\ unit = "set_connection_params"
    /\ PortGiven(args.scheme)
    /\ ~PositiveInt(args.scheme["db-port"])

\* C21: after any sequence of set_connection_params calls the Oracle port
\* is None or a positive integer, and a call whose 'db-port' is not a
\* positive integer is rejected with an error and leaves the port as it was.
C21_PortPositiveOrNone ==
    /\ ORCL_DB.PORT # <<>> => ORCL_DB.PORT[1] > 0
    /\ BadPortGiven =>
          /\ Len(errors) > 0 \/ out.raised
          /\ ORCL_DB.PORT = out.before.PORT

\* ------------------------------------------------------------------ C22
\* the last call was set_connection_params with a 'db-driver'
DriverGiven ==
    /\ unit = "set_connection_params"
    /\ Truthy(Get(args.scheme, "db-driver"))

\* C22: a set_connection_params call giving 'db-driver' is rejected: error
\* 113 is appended and the call changes none of name, user, password,
\* host, port and client.
C22_DriverRejectedNothingChanged ==
    DriverGiven =>
        /\ \E i \in 1..Len(errors) : errors[i].code = "113"
        /\ ORCL_DB = out.before

\* ------------------------------------------------------------------ C23
\* the required parameters that were never provided
Missing == { param \in Range(Required) :
                IF param = "PORT" THEN ORCL_DB.PORT = <<>>
                ELSE ORCL_DB[param] = "None" }

\* the errors the last call appended to the list it was given
Appended == SubSeq(errors, Len(args.errors) + 1, Len(errors))

\* C23: assert_connection_params returns True exactly when name, user,
\* password, host and port have all been provided, whatever the errors list
\* it was given holds, and it appends exactly one error 112 for each
\* parameter that is missing.
C23_AssertIffAllProvided ==
    unit = "assert_connection_params" =>
        /\ out.return = (Missing = {})
        /\ SubSeq(errors, 1, Len(args.errors)) = args.errors
        /\ Len(Appended) = Cardinality(Missing)
        /\ \A param \in Missing :
              \E i \in 1..Len(Appended) :
                  Appended[i].code = "112" /\ Appended[i].names = <<param>>

\* ------------------------------------------------------------------ C24
\* C24: the response of get-rdbms does not depend on the stored password:
\* had the configuration held any other password, and nothing else been
\* different, the parameters returned would be the same.
C24_PasswordNotDisclosed ==
    (unit = "get_connection_params" /\ ORCL_DB.PWD # "None") =>
        \A pwd \in Passwords :
            handle_rdbms_get([ORCL_DB EXCEPT !.PWD = pwd]) = out.return

\* ------------------------------------------------------------------ C25
\* the catalog's schemas whose name equals the requested one ignoring case
Matching == { i \in 1..Len(SourceCatalog) : Lower(SourceCatalog[i]) = Lower(source_schema) }

\* the catalog has been searched for the schema: the engines were built
\* and the request was not refused
SchemaLookedUp ==
    /\ pc \notin {"md_validate", "mm_engines", "mm_schema", "sm_engines", "sm_reflect"}
    /\ warranted # "no"
    /\ \A i \in 1..Len(errors) : errors[i].what # "build_engine"

StepsReturned == variant = "steps" /\ pc = "done" /\ warranted # "no"

\* C26: when migrate_metadata of the steps variant has returned, the
\* include_tables and exclude_tables lists of the caller hold the names
\* they held when the call was made.
C26_RequestListsUnchanged ==
    StepsReturned =>
        /\ include_tables = scheme[1]
        /\ exclude_tables = scheme[2]

\* ------------------------------------------------------------------ C27
\* migrate has ended, by returning or with an exception
Exited == variant = "migrator" /\ pc \in {"done", "raised"}

\* db_connect could not open the target connection
ConnectFailed == \E i \in 1..Len(op_errors) : op_errors[i].what = "connect"

\* the statements the plain-data phase executes on the target
TargetDataOps == {"DISABLE", "INSERT", "RESTORE", "CLOSE"}

\* C27: the target connection migrate opens for the plain-data phase is
\* closed on every way out of that phase, a failed toggle of the session
\* restrictions and a failure inside the data loop included, and never
\* before the restrictions were restored; when the connection cannot be
\* opened, the phase executes no statement on the target and every table
\* keeps status 'none' and count 0.
C27_ConnectionClosedOnExit ==
    /\ Exited => target_conn # "open"
    /\ \A i \in Positions :
          trace[i].op = "CLOSE" =>
              \E j \in 1..(i - 1) : trace[j].op = "RESTORE"
    /\ (variant = "migrator" /\ pc \in {"m_finish", "done"} /\ ConnectFailed) =>
          /\ \A i \in Positions : trace[i].op \notin TargetDataOps
          /\ \A i \in 1..Len(result) :
                result[i].status = "none" /\ result[i].count = 0

\* ------------------------------------------------------------------ C28
\* the source rows of table t in paging order (ORDER BY rowid)
PagingOrder(t) == SortSeq(SourceHeap(t), LAMBDA a, b : a < b)

\* the batches inserted into table t, in the order of insertion
Batches(t) ==
    LET done == SelectSeq(StmtsOf("INSERT", t), LAMBDA e : e.ok)
    IN  [k \in 1..Len(done) |-> done[k].rows]

\* s is the beginning of r
IsPrefix(s, r) == Len(s) <= Len(r) /\ s = SubSeq(r, 1, Len(s))

\* C28: the batches of a table are inserted at strictly increasing offsets
\* from 0, each one beginning where the one before it ended, so that the
\* rows inserted so far are always, a failure at any point included, a
\* prefix of the source rows in paging order.
C28_BatchesFormPrefix ==
    variant = "migrator" =>
        /\ \A t \in Tables :
              LET b == Batches(t)
              IN  /\ \A k \in 1..Len(b) :
                        LET start == SumLen(SubSeq(b, 1, k - 1))
                        IN  /\ b[k] # <<>>
                            /\ b[k] = SubSeq(PagingOrder(t), start + 1, start + Len(b[k]))
                  /\ IsPrefix(Inserted(t), PagingOrder(t))
        /\ (pc = "pd_loop" /\ idx \in 1..Len(result)) =>
              offset = Len(Inserted(result[idx].table))

\* a table got two batches, then a statement of that table failed
C28_Witness ==
    /\ variant = "migrator" /\ pc = "done"
    /\ \E t \in Tables :
          /\ Len(Batches(t)) = 2
          /\ Inserted(t) = UpTo(MaxRows)
          /\ DataFailed(t)

\* ------------------------------------------------------------------ C29
\* the number of batches of b rows that n rows fill
Ceil(n, b) == (n + b - 1) \div b

\* C29: a table of N rows migrated without a failure gets exactly
\* ceil(N/B) INSERTs, all of B rows but the last, which has the rows that
\* remain; when a statement fails after k INSERTs succeeded, the count
\* recorded is the number of rows of those k batches and the status is
\* 'partial' when k >= 1.
C29_BatchCountAndSizes ==
    \A i \in 1..Len(result) : Processed(i) =>
        LET t == result[i].table
            b == Batches(t)
            n == src_count[t]
            last == Ceil(n, BatchSize)
        IN  /\ ~DataFailed(t) =>
                /\ Len(StmtsOf("INSERT", t)) = last
                /\ Len(b) = last
                /\ \A k \in 1..Len(b) :
                      Len(b[k]) = IF k < last THEN BatchSize
                                  ELSE n - BatchSize * (last - 1)
            /\ DataFailed(t) =>
                /\ result[i].count = SumLen(b)
                /\ Len(b) >= 1 => result[i].status = "partial"

\* one table went through in two batches, the last one short; another one
\* failed after its first batch
C29_Witness ==
    /\ variant = "migrator" /\ pc = "done"
    /\ \E i, j \in 1..Len(result) :
          /\ Processed(i) /\ Processed(j)
          /\ ~DataFailed(result[i].table)
          /\ Len(Batches(result[i].table)) = 2
          /\ Len(Batches(result[i].table)[2]) < BatchSize
          /\ DataFailed(result[j].table)
          /\ Len(Batches(result[j].table)) = 1
          /\ result[j].status = "partial"

\* ------------------------------------------------------------------ C30
\* the probe of the target catalog found the target schema
SchemaExisted ==
    /\ variant = "migrator"
    /\ to_schema
    /\ \E i \in Positions : trace[i].op = "PROBE"
    /\ \A i \in Positions : trace[i].op # "CREATE SCHEMA"

Purged == Filtered /\ NotFoundErrors = {}

\* the request came through migrate_data
ThroughMigrateData == variant = "steps" /\ warranted # "unasked"

\* C31: whenever process_indexes is false, every table the steps variant
\* keeps for migration holds no index definition, whatever step_metadata
\* is; and the process_indexes migrate_data derives is true only if
\* migrate-metadata is set.
C31_IndexesStrippedAlways ==
    /\ (Purged /\ ~flags.process_indexes) => indexes = {}
    /\ ThroughMigrateData => (flags.process_indexes => flags.step_metadata)

\* C31, as the code has it: the index definitions are stripped when
\* step_metadata is true and process_indexes is false, and left as
\* reflected on the tables kept otherwise; the process_indexes migrate_data
\* derives is true only if migrate-metadata is set.
C31_IndexesStrippedWithMetadata ==
    /\ Purged =>
          indexes = IF flags.step_metadata /\ ~flags.process_indexes THEN {}
                    ELSE metadata \cap Tables
    /\ ThroughMigrateData => (flags.process_indexes => flags.step_metadata)

\* tables were kept and stripped of their index definitions in a request
\* that came through migrate_data
C31_Witness ==
    /\ Purged /\ ThroughMigrateData
    /\ flags.step_metadata /\ ~flags.process_indexes
    /\ metadata \cap Tables # {}
    /\ indexes = {}

\* ------------------------------------------------------------------ C32
\* the session functions a declared default may name
SessionFunctions == {"sysdate", "systime", "current_timestamp", "getdate", "now"}

\* C32: after setup_target_table every column has lost its server default,
\* every column whose declared default is a session function has got the
\* default null, and a column with a non-null default has caused no error.
C32_DefaultsAdjusted ==
    Returned("setup_target_table") =>
        /\ \A i \in 1..Len(out.columns) :
              /\ out.columns[i].server_default = "None"
              /\ args.columns[i].default \in SessionFunctions =>
                    out.columns[i].default = "None"
        /\ out.errors = <<>>

\* ------------------------------------------------------------------ C33
\* the statements migrate_schema, create_all and migrate_view execute
SchemaOps == DdlOps \cup {"PROBE", "VIEW SCRIPT"}

\* C33: when step_metadata is false the steps variant executes no DDL on
\* the target: migrate_schema is not called, no table and no view is
\* created, the target stays as it was found, the tables kept hold the
\* index definitions they were reflected with, and the call returns the
\* per-table result of the tables selected.
C33_NoDdlWithoutStepMetadata ==
    (variant = "steps" /\ ~flags.step_metadata) =>
        /\ \A i \in Positions : trace[i].op \notin SchemaOps
        /\ <<tschema, ttables, trows, tviews>> = first_target
        /\ Purged => indexes = metadata \cap Tables
        /\ (pc = "done" /\ Purged /\ errors = <<>>) =>
              /\ result_set
              /\ result = [i \in 1..Len(source_tables) |-> MigratedTable(source_tables[i])]

\* the result of two tables was computed for a target left as it was
C33_Witness ==
    /\ variant = "steps" /\ pc = "done"
    /\ ~flags.step_metadata
    /\ result_set /\ Len(result) = NumTables
    /\ errors = <<>>
    /\ ttables = Tables
    /\ indexes = Tables

\* ------------------------------------------------------------------ C34
\* the creation of a table or view was attempted at position i
Creation(i) == trace[i].op \in {"CREATE", "CREATE VIEW"}

\* C34: in the steps variant, once the creation of a table or view on the
\* target has failed, no table or view later in the sorted list is
\* created, and the tables created before the failure remain.
C34_AbortAfterFailedCreation ==
    variant = "steps" =>
        \A i \in Positions : (Creation(i) /\ ~trace[i].ok) =>
            /\ \A j \in Positions : j > i => ~Creation(j)
            /\ \A j \in Positions :
                  (j < i /\ trace[j].op = "CREATE" /\ trace[j].ok) =>
                      trace[j].tbl \in ttables

\* ------------------------------------------------------------------ C35
\* C35: every table record has status 'none', 'full' or 'partial', with
\* count 0 when 'none', a positive count when 'partial' and never more
\* than the rows of the source table; at the head of the paging loop the
\* running count equals the offset.
C35_RecordInvariants ==
    variant = "migrator" =>
        /\ \A i \in 1..Len(result) :
              /\ result[i].status \in {"none", "full", "partial"}
              /\ result[i].status = "none" => result[i].count = 0
              /\ result[i].status = "partial" => result[i].count > 0
              /\ result[i].count <= src_count[result[i].table]
        /\ pc = "pd_loop" => migrated_count = offset

\* the three statuses were recorded in requests that went through
C35_Witness ==
    /\ variant = "migrator" /\ pc = "done"
    /\ \E i, j \in 1..Len(result) :
          /\ result[i].status = "partial" /\ result[i].count = BatchSize
          /\ result[j].status = "none"
          /\ DataFailed(result[j].table)

\* ------------------------------------------------------------------ C36
\* migrate_plain_data has returned with a status assigned to every table
AllAssigned ==
    /\ pc \in {"m_restore", "m_close", "m_finish", "done"}
    /\ idx > Len(result)

\* the paging of table t has ended at position i of the trace: an empty
\* fetch or a failed statement
PagingEnded(i) ==
    /\ trace[i].op \in DataOps
    /\ ~trace[i].ok \/ (trace[i].op = "SELECT" /\ trace[i].rows = <<>>)

\* the SELECTs issued so far stay within floor(N/B) + 1 for every table
\* and no statement of a table follows the end of its paging
PagingBounded ==
    /\ \A t \in Tables :
          Len(StmtsOf("SELECT", t)) <= (src_count[t] \div BatchSize) + 1
    /\ \A i, j \in Positions :
          (i < j /\ PagingEnded(i)) =>
              ~(trace[j].op \in DataOps /\ trace[j].tbl = trace[i].tbl)

\* C36: the paging loop of migrate_plain_data ends for every table, after
\* the first empty fetch or the first error and after at most
\* floor(N/B) + 1 SELECTs for a table of N rows, and migrate_plain_data
\* eventually assigns a status to every table of the list.
C36_PagingTerminates ==
    /\ []PagingBounded
    /\ (pc \in PdStates) ~> AllAssigned

\* ------------------------------------------------------------------ C37
\* C37: in the steps variant a name of include_tables or exclude_tables
\* that is the name of a table of the source schema is never reported as
\* 'not found', also when the name is listed more than once.
C37_SourceTableNeverNotFound ==
    variant = "steps" =>
        \A i \in NotFoundErrors : Range(errors[i].names) \cap Tables = {}

\* ------------------------------------------------------------------ C38
\* positions of the trace where init_oracle_client was called
InitCalls == {i \in Positions : trace[i].op = "INIT_CLIENT"}

\* C38: over any sequence of calls of the Oracle adapter's initialize the
\* client library is successfully initialized at most once: after a
\* successful init_oracle_client client_initialized is true and later
\* calls do nothing, no call is made while ORCL_DB_CLIENT is unset, and a
\* failed call appends an error and leaves client_initialized false, so
\* that a later call tries again.
C38_ClientInitializedOnce ==
    variant = "oracle" =>
        /\ Cardinality({i \in InitCalls : trace[i].ok}) <= 1
        /\ client_initialized <=> \E i \in InitCalls : trace[i].ok
        /\ \A i \in InitCalls : trace[i].rows[1] # "None"
        /\ \A i, j \in InitCalls : i < j => ~trace[i].ok
        /\ (unit = "initialize" /\ out.called /\ ~trace[Len(trace)].ok) =>
               /\ Len(errors) = Len(args.errors) + 1
               /\ ~client_initialized
        /\ (unit = "initialize" /\ ~out.called) =>
               /\ errors = args.errors
               /\ out.before.CLIENT = "None" \/ client_initialized

\* a failed call, a second call that succeeds, then a call that does
\* nothing
C38_Witness ==
    /\ variant = "oracle"
    /\ unit = "initialize"
    /\ ~out.called
    /\ Len(trace) = 2
    /\ ~trace[1].ok
    /\ trace[2].ok
    /\ client_initialized

====
